---- MODULE Spec2Model ----
(***************************************************************************)
(* Turn orchestration of the expert-finder agent (src/agent/main.py):      *)
(* agent_node -> should_continue -> {tool_node -> agent_node} |            *)
(* {feedback_node -> END} | END, over the LangGraph state                  *)
(* (messages, error, copilotkit.actions).                                  *)
(***************************************************************************)
EXTENDS Integers, Sequences, FiniteSets, Bags, TLC

VARIABLES
    pc,         \* node the graph runs next: agent, route, tools, tools_wait,
                \* feedback, suspended, end, crashed
    messages,   \* state["messages"]: the transcript
    error,      \* state["error"]: last-error, NoError when unset
    frontend,   \* state["copilotkit"]["actions"]: names of the frontend tools
    mlflow_enabled, \* settings.mlflow_enabled
    nextId,     \* source of fresh identifiers (uuid4, provider ids)
    decisions,  \* number of agent_node executions so far
    batch,      \* tool calls in flight: slot i holds call i's ToolMessage
    done,       \* the calls of the last batch in the order they completed,
                \* each with its outcome
    lastExc,    \* exception raised in the last agent_node run, if any
    lastRaw,    \* messages of the last node as produced, before the id fix
    lastOut,    \* messages the last node returned
    route,      \* last value should_continue returned
    steps,      \* nodes executed so far, in order
    payload,    \* value handed to interrupt(), NoPayload before
    records,    \* feedback records the sink accepted
    faults,     \* failures that happened in the turn so far
    sent,       \* messages handed to the oracle by the last agent_node run
    resumed,    \* value the resume signal delivered to interrupt(), if any
    scoring,    \* what get_last_active_trace_id() did when the score was logged
    settings,   \* the Settings object of the module
    boot,       \* the globals the module load sets: SYSTEM_PROMPT, all_tools
    bound,      \* the tools bound to the model of the last oracle invocation
    other,      \* the state of the turn of the process that is not running
    running,    \* the turn whose state the variables above hold
    executed,   \* the ToolCalls ToolNode has run in the turn: a bag of call ids
    last_active, \* the id mlflow holds as the last active trace of the process
    applied     \* the calls of the functions applied on their own, with
                \* their arguments and results, in order

vars == <<pc, messages, error, frontend, mlflow_enabled, nextId, decisions,
          batch, done, lastExc, lastRaw, lastOut, route, steps, payload, records,
          faults, sent, resumed, scoring, settings, boot, bound, other,
          running, executed, last_active, applied>>

-----------------------------------------------------------------------------
(* Bounds of the exploration *)

MaxDecisions == 2
MaxCalls == 2
MaxTranscript == 3
MaxPasses == 3

-----------------------------------------------------------------------------
(* Values *)

\* Python None as a message id
None == 0

NoError == [type |-> "none"]
NoRoute == "none"
NoException == [name |-> "none"]
NoResponse == [type |-> "none"]
NoPayload == [type |-> "none"]
Pending == [type |-> "pending"]
NotResumed == [kind |-> "not resumed"]
\* the Feedback Step has not come to its scoring lines
NotScored == "not reached"
\* the process serves one turn
NoTurn == [pc |-> "none"]

Min(a, b) == IF a <= b THEN a ELSE b

\* the trace of this turn, as the tracing backend names it
TraceId == "trace-1"
NoTrace == "None"

\* autolog traces each graph execution as one trace: the trace of turn t
Trace(t) == IF t = 1 THEN TraceId ELSE "trace-2"

\* all_tools, the registry _base_tool_node was built from
Registry == {"find_experts_by_topic"}

\* a tool the caller supplies in copilotkit.actions
FrontendTool == "frontend_action"

\* tool names the oracle may request: the tools bound to the model it is
\* invoked on, all_tools + frontend_actions
ToolNames == Registry \cup frontend

\* a text: its tokens, in order, and its length in characters
Text(tokens, len) == [text |-> tokens, len |-> len]

EmptyText == Text(<<>>, 0)

HumanMessage(id, content) ==
    [type |-> "human", id |-> id, content |-> content, tool_calls |-> <<>>,
     tool_call_id |-> None, status |-> "success", error |-> FALSE]

SystemMessage(id, content) ==
    [type |-> "system", id |-> id, content |-> content, tool_calls |-> <<>>,
     tool_call_id |-> None, status |-> "success", error |-> FALSE]

AIMessage(id, content, calls) ==
    [type |-> "ai", id |-> id, content |-> content, tool_calls |-> calls,
     tool_call_id |-> None, status |-> "success", error |-> FALSE]

ToolMessage(id, content, call_id, status) ==
    [type |-> "tool", id |-> id, content |-> content, tool_calls |-> <<>>,
     tool_call_id |-> call_id, status |-> status, error |-> FALSE]

ToolCall(id, name) == [id |-> id, name |-> name]

-----------------------------------------------------------------------------
(* Module load: Settings(), _load_prompt_from_mlflow(), load_tools() *)

\* the longest credential explored
MaxKeyLen == 2

Blank == " "

\* the values a credential of the environment may have: characters of the key
\* and blanks
Credentials(c) == UNION {[1..n -> {Blank, c}] : n \in 0..MaxKeyLen}

RECURSIVE lstrip(_)
lstrip(s) == IF s # <<>> /\ Head(s) = Blank THEN lstrip(Tail(s)) ELSE s

RECURSIVE rstrip(_)
rstrip(s) ==
    IF s # <<>> /\ s[Len(s)] = Blank
    THEN rstrip(SubSeq(s, 1, Len(s) - 1))
    ELSE s

\* str.strip()
strip_nothing(s) == s
strip(s) == rstrip(lstrip(s))

\* "if k" for a string
NonEmpty(k) == k # <<>>

\* the fields of Settings that the module load reads
SettingsFields(openai, anthropic, url, token, username, api_token) ==
    [openai_api_key |-> openai, anthropic_api_key |-> anthropic,
     api_key |-> <<>>, jira_url |-> url, jira_personal_token |-> token,
     jira_username |-> username, jira_api_token |-> api_token]

\* Settings built from any environment, before its validator has run
EnvSettings ==
    {SettingsFields(o, a, u, t, n, k) :
        o \in Credentials("o"), a \in Credentials("a"),
        u \in {"", "https://jira"}, t \in {"", "pat"},
        n \in {"", "user"}, k \in {"", "token"}}

\* Settings._resolve_api_key: the settings with api_key set, or the ValueError
resolve_api_key(s) ==
    LET openai == strip(s.openai_api_key)
        anthropic == strip(s.anthropic_api_key)
        provided == SelectSeq(<<openai, anthropic>>, NonEmpty) IN
    IF Len(provided) = 0
    THEN [raised |-> TRUE, error |-> "Missing API key", settings |-> s]
    ELSE IF Len(provided) > 1
    THEN [raised |-> TRUE, error |-> "Ambiguous API key", settings |-> s]
    ELSE [raised |-> FALSE, error |-> "none",
          settings |-> [s EXCEPT !.api_key = provided[1]]]

\* the settings the turns are explored with
ResolvedSettings ==
    resolve_api_key(SettingsFields(<<>>, <<"a">>, "", "", "", "")).settings

\* DEFAULT_SYSTEM_PROMPT, and the template the prompt registry holds
DEFAULT_SYSTEM_PROMPT == Text(<<"You are an expert finder">>, 1200)
RegistryPrompt == Text(<<"You are an expert finder", "registered">>, 900)

\* what mlflow.genai.load_prompt may do
PromptOutcomes == {"ok", "raise"}

\* "except Exception" around mlflow.genai.load_prompt
PromptCatchesOff == FALSE
PromptCatches == TRUE

\* _load_prompt_from_mlflow: the text it returns, or the exception
load_prompt_from_mlflow(enabled, lookup) ==
    IF ~enabled
    THEN [raised |-> FALSE, text |-> DEFAULT_SYSTEM_PROMPT]
    ELSE IF lookup = "ok"
    THEN [raised |-> FALSE, text |-> RegistryPrompt]
    ELSE [raised |-> ~PromptCatches, text |-> DEFAULT_SYSTEM_PROMPT]

\* the Neo4j tools, in the order load_tools adds them, and the tools the
\* Atlassian MCP server offers
Neo4jTools ==
    <<"search_jira_text", "search_jira_semantic", "get_jira_details",
      "find_experts_by_topic", "find_experts_by_label", "find_jiras_by_person",
      "list_jira_labels">>
McpTools == <<"jira_search", "jira_get_issue">>

\* what get_neo4j_driver() and client.get_tools() may do
DriverOutcomes == {"driver", "none"}
McpOutcomes == {"ok", "raise"}

\* "jira_configured" of load_tools
jira_configured_url_only(s) == s.jira_url # ""
jira_configured(s) ==
    /\ s.jira_url # ""
    /\ \/ s.jira_personal_token # ""
       \/ (s.jira_username # "" /\ s.jira_api_token # "")

\* "except Exception" around MultiServerMCPClient and get_tools
McpCatches == TRUE

\* load_tools: the list it returns, or the exception
load_tools(s, driver, mcp) ==
    LET tools == IF driver = "driver" THEN Neo4jTools ELSE <<>> IN
    IF ~jira_configured(s)
    THEN [raised |-> FALSE, tools |-> tools]
    ELSE IF mcp = "ok"
    THEN [raised |-> FALSE, tools |-> tools \o McpTools]
    ELSE [raised |-> ~McpCatches, tools |-> tools]

\* no model has been made
NoModel == [provider |-> "none"]

\* get_model: the chat model it makes, with the key it passes, or the
\* ValueError
get_model(s) ==
    IF NonEmpty(s.openai_api_key)
    THEN [raised |-> FALSE,
          model |-> [provider |-> "openai", api_key |-> s.openai_api_key]]
    ELSE IF NonEmpty(s.anthropic_api_key)
    THEN [raised |-> FALSE,
          model |-> [provider |-> "anthropic", api_key |-> s.anthropic_api_key]]
    ELSE [raised |-> TRUE, model |-> NoModel]

\* _neo4j_driver = None
NoDriver == [id |-> None]

\* "auth = (username, password)" when both are set, None (no auth) when not
Auth(s) ==
    IF s.neo4j_username # "" /\ s.neo4j_password # ""
    THEN <<s.neo4j_username, s.neo4j_password>>
    ELSE <<>>

\* what GraphDatabase.driver(uri, auth=auth) returns: a driver, with whether
\* verify_connectivity() has succeeded on it
Driver(n, auth) == [id |-> n, auth |-> auth, verified |-> FALSE]

\* get_neo4j_driver, for what the creation of a driver and the check of its
\* connectivity do: the value it returns and _neo4j_driver after the call
get_neo4j_driver(global, s, create, verify, n) ==
    IF global = NoDriver
    THEN IF create = "raise"
         THEN [returned |-> NoDriver, global |-> NoDriver]
         ELSE IF verify = "raise"
         THEN [returned |-> NoDriver, global |-> Driver(n, Auth(s))]
         ELSE [returned |-> [Driver(n, Auth(s)) EXCEPT !.verified = TRUE],
               global |-> [Driver(n, Auth(s)) EXCEPT !.verified = TRUE]]
    ELSE [returned |-> global, global |-> global]

\* the globals of the module before it is loaded, and as the turns are
\* explored with them
NotLoaded ==
    [error |-> "none", SYSTEM_PROMPT |-> EmptyText, all_tools |-> <<>>,
     model_with_tools |-> <<>>, neo4j_driver |-> NoDriver,
     model |-> NoModel]
Ready ==
    [error |-> "none", SYSTEM_PROMPT |-> DEFAULT_SYSTEM_PROMPT,
     all_tools |-> <<"find_experts_by_topic">>,
     model_with_tools |-> <<"find_experts_by_topic">>,
     neo4j_driver |-> NoDriver, model |-> get_model(ResolvedSettings).model]

\* load_system_prompt(): the cached text
SYSTEM_PROMPT == boot.SYSTEM_PROMPT

-----------------------------------------------------------------------------
(* Trimming: trim_tool_response and the loop of agent_node that applies it *)

\* "len(msg.content) > 10000" for a ToolMessage, the default of max_chars
CeilingTool == 10000

\* "len(msg.content) > 50000" for an AIMessage, max_chars=50000
CeilingAgent == 50000

\* characters of the truncation notice around the number it states:
\* "\n\n... [TRUNCATED " and " characters to prevent context overflow] ...\n\n"
NoticeFrame == 63

\* a run of characters of a trimmed text: characters from..to of the text that
\* was trimmed first (n = 0), or of the truncation notice that states n
Piece(n, from, to) == [n |-> n, from |-> from, to |-> to]

PieceLen(p) == p.to - p.from + 1

\* the characters of a content, as pieces: a text that was never trimmed is
\* one piece
Parts(content) ==
    IF "parts" \in DOMAIN content THEN content.parts
    ELSE IF content.len = 0 THEN <<>>
    ELSE <<Piece(0, 1, content.len)>>

RECURSIVE PartsLen(_)
PartsLen(parts) ==
    IF parts = <<>> THEN 0 ELSE PieceLen(Head(parts)) + PartsLen(Tail(parts))

\* content[:k]
RECURSIVE Take(_, _)
Take(parts, k) ==
    IF k <= 0 \/ parts = <<>> THEN <<>>
    ELSE IF PieceLen(Head(parts)) <= k
    THEN <<Head(parts)>> \o Take(Tail(parts), k - PieceLen(Head(parts)))
    ELSE <<[Head(parts) EXCEPT !.to = Head(parts).from + k - 1]>>

\* content[k:]
RECURSIVE Drop(_, _)
Drop(parts, k) ==
    IF parts = <<>> THEN <<>>
    ELSE IF k <= 0 THEN parts
    ELSE IF PieceLen(Head(parts)) <= k
    THEN Drop(Tail(parts), k - PieceLen(Head(parts)))
    ELSE <<[Head(parts) EXCEPT !.from = Head(parts).from + k]>> \o Tail(parts)

\* content[-k:]: the last k characters, and all of them for k = 0 (-0 is 0)
TakeLast(parts, k) ==
    IF k = 0 THEN parts ELSE Drop(parts, PartsLen(parts) - k)

\* number of digits of n >= 0
RECURSIVE Digits(_)
Digits(n) == IF n < 10 THEN 1 ELSE 1 + Digits(n \div 10)

\* len(f"{n:,}"): the digits and a comma before every group of three
GroupedLen(n) == Digits(n) + (Digits(n) - 1) \div 3

\* len(truncation_notice) for truncated_chars = n
NoticeLen(n) == NoticeFrame + GroupedLen(n)

\* the truncation notice stating n, whole
Notice(n) == Piece(n, 1, NoticeLen(n))

\* keep_start = int(max_chars * 0.7) and keep_end = int(max_chars * 0.3)
KeepStartShort(max_chars) == (max_chars * 6) \div 10
KeepStart(max_chars) == (max_chars * 7) \div 10
KeepEnd(max_chars) == (max_chars * 3) \div 10

\* truncated_chars = len(content) - max_chars
TruncatedChars(content, max_chars) == content.len - max_chars

\* the tokens a text is known by stand at its start, in the part that is kept
trim_tool_response(content, max_chars) ==
    IF content.len <= max_chars THEN content
    ELSE LET start_content == Take(Parts(content), KeepStart(max_chars))
             end_content == TakeLast(Parts(content), KeepEnd(max_chars))
             truncation_notice == Notice(TruncatedChars(content, max_chars))
             trimmed == start_content \o <<truncation_notice>> \o end_content
         IN [text |-> content.text, len |-> PartsLen(trimmed), parts |-> trimmed]

\* the body of "for msg in messages" in agent_node
TrimMessage(msg) ==
    IF msg.type = "tool"
    THEN IF msg.content.len > CeilingTool
         THEN [msg EXCEPT !.content = trim_tool_response(msg.content, CeilingTool)]
         ELSE msg
    ELSE IF msg.type = "ai"
    THEN IF msg.content.len > CeilingAgent
         THEN [msg EXCEPT !.content = trim_tool_response(msg.content, CeilingAgent)]
         ELSE msg
    ELSE msg

\* the trimming loop over the messages of the state, which it changes in place
TrimPass(msgs) == [k \in 1..Len(msgs) |-> TrimMessage(msgs[k])]

-----------------------------------------------------------------------------
(* Parent references of a message: the attributes parentMessageId and        *)
(* parent_id, and the keys of the same names in additional_kwargs            *)

Absent == "absent"
Null == "null"
ParentValue == "msg-0"

\* a message the model gives no parent reference has none; deletable tells
\* whether "del msg.<attribute>" succeeds on the object
NoParents ==
    [parentMessageId |-> Absent, parent_id |-> Absent,
     kw_parentMessageId |-> Absent, kw_parent_id |-> Absent, deletable |-> TRUE]

Parents(msg) == IF "parents" \in DOMAIN msg THEN msg.parents ELSE NoParents

Attach(msg, p) ==
    [type |-> msg.type, id |-> msg.id, content |-> msg.content,
     tool_calls |-> msg.tool_calls, tool_call_id |-> msg.tool_call_id,
     status |-> msg.status, error |-> msg.error, parents |-> p]

\* "if msg.<attr> is None: try: del msg.<attr> except: pass"
DelNull(p, attr) ==
    IF p[attr] = Null /\ p.deletable THEN [p EXCEPT ![attr] = Absent] ELSE p

\* "if msg.additional_kwargs[<key>] is None: del msg.additional_kwargs[<key>]"
DelNullKey(p, key) ==
    IF p[key] = Null THEN [p EXCEPT ![key] = Absent] ELSE p

\* agent_node: parentMessageId as attribute, then in additional_kwargs
FixParentsAgent(msg) ==
    IF "parents" \in DOMAIN msg
    THEN [msg EXCEPT !.parents =
            DelNullKey(DelNull(@, "parentMessageId"), "kw_parentMessageId")]
    ELSE msg

\* tool_node: parent_id and parentMessageId as attributes, then parentMessageId
\* in additional_kwargs
FixParentsTool(msg) ==
    IF "parents" \in DOMAIN msg
    THEN [msg EXCEPT !.parents =
            DelNullKey(DelNull(DelNull(@, "parent_id"), "parentMessageId"),
                       "kw_parentMessageId")]
    ELSE msg

-----------------------------------------------------------------------------
(* Decision Step: agent_node *)

\* lengths of the final answers the oracle may give
AnswerLens == {200, 800}

\* exceptions (subclasses of Exception) that preparing or performing the oracle
\* invocation may raise, with the lengths of type(e).__name__ and str(e)
Exceptions ==
    {[name |-> "TimeoutError", base |-> "Exception", nameLen |-> 12, strLen |-> 0],
     [name |-> "APIStatusError", base |-> "Exception", nameLen |-> 14, strLen |-> 600]}

\* where in agent_node's try block the exception is raised
RaisePoints == {"prepare", "invoke"}

\* the ToolCalls of one AgentResponse: names in order, ids fresh from n on
CallsFrom(names, n) ==
    [i \in 1..Len(names) |-> ToolCall(n + i - 1, names[i])]

CallNames == UNION {[1..k -> ToolNames] : k \in 1..MaxCalls}

\* what model_to_use.ainvoke(messages) may return: a final answer or a request
\* for tools, with the id the provider gave it (n) or without one
OracleResponses(n) ==
    {AIMessage(id, Text(<<"answer">>, len), <<>>) :
        id \in {None, n}, len \in AnswerLens}
    \cup
    {AIMessage(id, EmptyText, CallsFrom(names, n + 1)) :
        id \in {None, n}, names \in CallNames}

\* one run of the try block: an exception raised at a point, or a response
AgentOutcomes(n) ==
    {[exc |-> e, at |-> p, response |-> NoResponse] :
        e \in Exceptions, p \in RaisePoints}
    \cup
    {[exc |-> NoException, at |-> "none", response |-> r] :
        r \in OracleResponses(n)}

\* "if hasattr(msg, 'id') and msg.id is None: msg.id = str(uuid.uuid4())"
FixIdNever(msg, fresh) == msg
FixId(msg, fresh) ==
    IF msg.id = None THEN [msg EXCEPT !.id = fresh] ELSE msg

\* "except Exception as e"
AgentCatchesNarrow(e) == e.name = "ValueError"
AgentCatches(e) == e.base = "Exception"

\* error_msg = f"Agent error: {type(e).__name__}: {str(e)}"
ErrorMsg(e) == Text(<<"Agent error:", e.name>>, 13 + e.nameLen + 2 + e.strLen)

\* the synthetic AgentResponse of the except branch
ErrorResponse(e, fresh) ==
    AIMessage(fresh,
              Text(<<"An error occurred while processing your request:">>
                     \o ErrorMsg(e).text,
                   62 + ErrorMsg(e).len + 4),
              <<>>)

agent_node_error_only(outcome, fresh) ==
    IF outcome.exc = NoException
    THEN [raised |-> FALSE,
          raw |-> <<outcome.response>>,
          messages |-> <<FixParentsAgent(FixId(outcome.response, fresh))>>,
          error |-> NoError, sets_error |-> FALSE]
    ELSE [raised |-> FALSE, raw |-> <<>>, messages |-> <<>>,
          error |-> ErrorMsg(outcome.exc), sets_error |-> TRUE]

\* agent_node: the update it returns, or the exception it lets through
agent_node(outcome, fresh) ==
    IF outcome.exc = NoException
    THEN [raised |-> FALSE,
          raw |-> <<outcome.response>>,
          messages |-> <<FixParentsAgent(FixId(outcome.response, fresh))>>,
          error |-> NoError, sets_error |-> FALSE]
    ELSE IF AgentCatches(outcome.exc)
    THEN [raised |-> FALSE,
          raw |-> <<ErrorResponse(outcome.exc, fresh)>>,
          messages |-> <<ErrorResponse(outcome.exc, fresh)>>,
          error |-> ErrorMsg(outcome.exc), sets_error |-> TRUE]
    ELSE [raised |-> TRUE, raw |-> <<>>, messages |-> <<>>,
          error |-> NoError, sets_error |-> FALSE]

\* ids a response uses: one for itself and one per ToolCall
IdsUsed(outcome) ==
    IF outcome.exc = NoException
    THEN 1 + Len(outcome.response.tool_calls)
    ELSE 1

\* the messages of the state after the run: the trimming loop has changed them
\* unless the exception was raised before it
Trimmed(msgs, outcome) ==
    IF outcome.at = "prepare" THEN msgs ELSE TrimPass(msgs)

\* the sequence handed to model_to_use.ainvoke: the system prompt first, put
\* there when the state does not start with one, and the trimmed messages
OracleInputAsIs(msgs) == TrimPass(msgs)
OracleInput(msgs) ==
    IF msgs = <<>> \/ msgs[1].type # "system"
    THEN <<SystemMessage(None, SYSTEM_PROMPT)>> \o TrimPass(msgs)
    ELSE TrimPass(msgs)

\* what the run hands to the oracle: nothing when it fails before
Invoked(msgs, outcome) ==
    IF outcome.at = "prepare" THEN <<>> ELSE OracleInput(msgs)

\* state["copilotkit"]["actions"] as a list
Actions(f) == IF FrontendTool \in f THEN <<FrontendTool>> ELSE <<>>

\* "merged_tools = all_tools + frontend_actions": the list bound to the model,
\* and all_tools after the line
merged_tools_in_place(all_tools, actions) ==
    [merged |-> all_tools \o actions, all_tools |-> all_tools \o actions]
merged_tools(all_tools, actions) ==
    [merged |-> all_tools \o actions, all_tools |-> all_tools]

\* the tools of model_to_use: the merged list when the turn has frontend
\* actions, those of model_with_tools when it has none
ModelToUse(b, actions) ==
    IF actions # <<>>
    THEN merged_tools(b.all_tools, actions).merged
    ELSE b.model_with_tools

\* the globals after the tools are merged
GlobalsAfter(b, actions) ==
    IF actions # <<>>
    THEN [b EXCEPT !.all_tools = merged_tools(b.all_tools, actions).all_tools]
    ELSE b

\* workflow.add_edge(START, "agent")
EntryPoint == "agent"

\* the conditional edge out of "agent" consults should_continue
AfterAgent == "route"

\* one run of agent_node, for the outcomes its try block may have
AgentRuns(outcomes) ==
    /\ pc = "agent"
    /\ \E outcome \in outcomes :
         LET r == agent_node(outcome, nextId) IN
         /\ pc' = IF r.raised THEN "crashed" ELSE AfterAgent
         /\ messages' = Trimmed(messages, outcome) \o r.messages
         /\ sent' = Invoked(messages, outcome)
         /\ bound' = IF outcome.at = "prepare" THEN <<>>
                     ELSE ModelToUse(boot, Actions(frontend))
         /\ boot' = IF outcome.at = "prepare" THEN boot
                    ELSE GlobalsAfter(boot, Actions(frontend))
         /\ error' = IF r.sets_error THEN r.error ELSE error
         /\ lastRaw' = r.raw
         /\ lastOut' = r.messages
         /\ faults' = IF outcome.exc = NoException THEN faults
                      ELSE faults \cup {outcome.at}
         /\ nextId' = nextId + IdsUsed(outcome)
         /\ lastExc' = outcome.exc
    /\ last_active' = IF mlflow_enabled THEN Trace(running) ELSE last_active
    /\ decisions' = decisions + 1
    /\ steps' = Append(steps, "agent")
    /\ done' = <<>>
    /\ UNCHANGED <<frontend, mlflow_enabled, batch, route, payload, records,
                   resumed, scoring, settings, other, running, executed,
                   applied>>

AgentNode ==
    /\ decisions < MaxDecisions
    /\ AgentRuns(AgentOutcomes(nextId))

-----------------------------------------------------------------------------
(* Router: should_continue *)

END == "__end__"

should_continue_no_feedback(msgs) ==
    IF Len(msgs) = 0 THEN END
    ELSE LET last_message == msgs[Len(msgs)] IN
         IF last_message.type = "ai" /\ Len(last_message.tool_calls) > 0
         THEN "tools"
         ELSE END

should_continue_feedback_default(msgs) ==
    IF Len(msgs) = 0 THEN END
    ELSE LET last_message == msgs[Len(msgs)] IN
         IF last_message.type = "ai" /\ Len(last_message.tool_calls) > 0
         THEN "tools"
         ELSE "feedback"

should_continue(msgs) ==
    IF Len(msgs) = 0 THEN END
    ELSE LET last_message == msgs[Len(msgs)] IN
         IF last_message.type = "ai"
         THEN IF Len(last_message.tool_calls) > 0 THEN "tools" ELSE "feedback"
         ELSE END

\* the mapping of add_conditional_edges: router value -> next node
ConditionalEdge(r) ==
    CASE r = "tools" -> "tools"
      [] r = "feedback" -> "feedback"
      [] r = END -> "end"
      [] OTHER -> "crashed"

Route ==
    /\ pc = "route"
    /\ route' = should_continue(messages)
    /\ pc' = ConditionalEdge(should_continue(messages))
    /\ steps' = Append(steps, "route")
    /\ UNCHANGED <<messages, error, frontend, mlflow_enabled, nextId, decisions,
                   batch, done, lastExc, lastRaw, lastOut, payload, records, faults>>
    /\ UNCHANGED <<sent, resumed, scoring, settings, boot, bound, other, running>>
    /\ UNCHANGED <<executed, last_active, applied>>

-----------------------------------------------------------------------------
(* Tool Invoker: _base_tool_node (ToolNode) and its wrapper tool_node *)

\* what invoking a registered tool may do
ToolOutcomes == {"ok", "raise"}

\* ToolNode(all_tools, handle_tool_errors=True)
HandleToolErrorsOff == FALSE
HandleToolErrors == TRUE

\* the signatures to be found inside a token: itself, and "Error:" at the end
\* of the name of an exception class
Within(token) ==
    IF token \in {"HTTPError:", "ValueError:"}
    THEN {token, "Error:"}
    ELSE {token}

\* "signature in msg.content", case-sensitive
Contains(content, token) ==
    \E i \in 1..Len(content.text) : token \in Within(content.text[i])

\* tokens t for which t.lower().startswith("error")
ErrorLeadTokens ==
    {"Error:", "error:", "Error", "error", "ERROR", "Errors",
     "Error finding experts:"}

StartsWithError(content) ==
    /\ Len(content.text) > 0
    /\ content.text[1] \in ErrorLeadTokens

\* the signature test of tool_node
is_error_never(content) == FALSE
is_error_contains_only(content) ==
    \/ Contains(content, "Error:")
    \/ Contains(content, "HTTPError:")
    \/ Contains(content, "HTTP error")
    \/ Contains(content, "Traceback")
    \/ Contains(content, "does not exist for the field")
is_error(content) ==
    \/ Contains(content, "Error:")
    \/ Contains(content, "HTTPError:")
    \/ Contains(content, "HTTP error")
    \/ Contains(content, "Traceback")
    \/ Contains(content, "does not exist for the field")
    \/ StartsWithError(content)

\* ToolNode's answer to a call of a tool that is not in its registry
InvalidToolMessage(call) ==
    ToolMessage(None,
                Text(<<"Error:", call.name, "is not a valid tool, try one of">>, 90),
                call.id, "error")

\* ToolNode's answer to a call whose tool raised, with handle_tool_errors on
ToolErrorMessage(call) ==
    ToolMessage(None,
                Text(<<"Error:", "ToolException", "Please fix your mistakes.">>, 60),
                call.id, "error")

\* ToolNode's answer to a call whose tool returned its text
ToolResultMessage(call) ==
    ToolMessage(None, Text(<<"Found", "experts">>, 400), call.id, "success")

\* the outcomes call may have in ToolNode
OutcomesOf(call) ==
    IF call.name \in Registry THEN ToolOutcomes ELSE {"invalid"}

\* ToolNode running one call: the ToolMessage, or Pending when the exception
\* of the tool is not handled and propagates
run_one(call, outcome) ==
    CASE outcome = "invalid" -> InvalidToolMessage(call)
      [] outcome = "raise" ->
            IF HandleToolErrors THEN ToolErrorMessage(call) ELSE Pending
      [] OTHER -> ToolResultMessage(call)

\* the calls of every AgentResponse of the state, in order
RECURSIVE PendingCallsEvery(_)
PendingCallsEvery(msgs) ==
    IF msgs = <<>> THEN <<>>
    ELSE PendingCallsEvery(SubSeq(msgs, 1, Len(msgs) - 1))
           \o (IF msgs[Len(msgs)].type = "ai"
               THEN msgs[Len(msgs)].tool_calls ELSE <<>>)

\* the calls ToolNode takes from the state: those of the last message
PendingCalls(msgs) ==
    IF Len(msgs) > 0 /\ msgs[Len(msgs)].type = "ai"
    THEN msgs[Len(msgs)].tool_calls
    ELSE <<>>

\* asyncio.gather: results in the order of the calls, whatever order they
\* completed in
Gather(slots, order) ==
    [k \in 1..Len(slots) |-> slots[k]]

MarkError(msg) ==
    IF is_error(msg.content) THEN [msg EXCEPT !.error = TRUE] ELSE msg

\* tool_node's loop over result["messages"]: id fix, parent references and
\* error marking, in place
PostProcessReversed(results, fresh) ==
    [k \in 1..Len(results) |->
        MarkError(FixParentsTool(FixId(results[Len(results) + 1 - k],
                                       fresh + k - 1)))]
PostProcess(results, fresh) ==
    [k \in 1..Len(results) |->
        MarkError(FixParentsTool(FixId(results[k], fresh + k - 1)))]

\* workflow.add_edge("tools", "agent")
EdgeAfterToolsRouter == "route"
EdgeAfterTools == "agent"

\* tool_node is entered: ToolNode dispatches every call of the batch (a pass is
\* explored only while a Decision Step can still follow it)
ToolsStart ==
    /\ pc = "tools"
    /\ decisions < MaxDecisions
    /\ Len(PendingCalls(messages)) > 0
    /\ batch' = [i \in 1..Len(PendingCalls(messages)) |-> Pending]
    /\ done' = <<>>
    /\ pc' = "tools_wait"
    /\ steps' = Append(steps, "tools")
    /\ lastRaw' = <<>>
    /\ lastOut' = <<>>
    /\ UNCHANGED <<messages, error, frontend, mlflow_enabled, nextId, decisions,
                   lastExc, route, payload, records, faults>>
    /\ UNCHANGED <<sent, resumed, scoring, settings, boot, bound, other, running>>
    /\ UNCHANGED <<executed, last_active, applied>>

\* one dispatched call completes
ToolComplete ==
    /\ pc = "tools_wait"
    /\ \E i \in 1..Len(batch) :
         /\ batch[i] = Pending
         /\ \E outcome \in OutcomesOf(PendingCalls(messages)[i]) :
              LET msg == run_one(PendingCalls(messages)[i], outcome) IN
              /\ batch' = [batch EXCEPT ![i] = msg]
              /\ done' = Append(done, [i |-> i, outcome |-> outcome])
              /\ pc' = IF msg = Pending THEN "crashed" ELSE pc
              /\ faults' = IF outcome = "ok" THEN faults
                           ELSE faults \cup {outcome}
              /\ executed' = executed (+) SetToBag({PendingCalls(messages)[i].id})
    /\ UNCHANGED <<messages, error, frontend, mlflow_enabled, nextId, decisions,
                   lastExc, lastRaw, lastOut, route, steps, payload, records>>
    /\ UNCHANGED <<sent, resumed, scoring, settings, boot, bound, other, running>>
    /\ UNCHANGED <<last_active, applied>>

\* every call has completed: ToolNode returns and tool_node post-processes
ToolsReturn ==
    /\ pc = "tools_wait"
    /\ \A i \in 1..Len(batch) : batch[i] # Pending
    /\ LET results == Gather(batch, done)
           out == PostProcess(results, nextId) IN
       /\ messages' = messages \o out
       /\ lastRaw' = results
       /\ lastOut' = out
       /\ nextId' = nextId + Len(results)
    /\ pc' = EdgeAfterTools
    /\ batch' = <<>>
    /\ UNCHANGED <<error, frontend, mlflow_enabled, decisions, done, lastExc,
                   route, steps, payload, records, faults>>
    /\ UNCHANGED <<sent, resumed, scoring, settings, boot, bound, other, running>>
    /\ UNCHANGED <<executed, last_active, applied>>

-----------------------------------------------------------------------------
(* Feedback Step: feedback_node *)

\* response_text[:500]
PreviewLen == 500

PrefixWhole(content, n) == content
Prefix(content, n) == Text(content.text, Min(content.len, n))

\* "for msg in reversed(messages): if isinstance(msg, AIMessage) and not
\* msg.tool_calls": the index of the message to rate, 0 when there is none
LastAnswerIndexFirst(msgs) ==
    LET hits == {i \in 1..Len(msgs) :
                    msgs[i].type = "ai" /\ Len(msgs[i].tool_calls) = 0} IN
    IF hits = {} THEN 0 ELSE CHOOSE i \in hits : \A j \in hits : i <= j
LastAnswerIndex(msgs) ==
    LET hits == {i \in 1..Len(msgs) :
                    msgs[i].type = "ai" /\ Len(msgs[i].tool_calls) = 0} IN
    IF hits = {} THEN 0 ELSE CHOOSE i \in hits : \A j \in hits : j <= i

\* what mlflow.last_active_trace() and mlflow.get_last_active_trace_id() may do:
\* raise, find no trace, or return the last active trace of the process
TraceOutcomes == {"raise", "none", "trace"}

\* what mlflow.log_feedback may do
SinkOutcomes == {"ok", "raise"}

\* log_feedback is called only "if active_trace_id is not None"
SinkCalls(lookup) == IF lookup = "trace" THEN SinkOutcomes ELSE {"not called"}

\* the lookups are made only "if settings.mlflow_enabled"
LookupOutcomes(enabled) == IF enabled THEN TraceOutcomes ELSE {"skipped"}

\* the lookup made again when the node is re-run on resume: its value goes
\* into the payload of an interrupt() that returns at once, so only whether it
\* raises matters
RerunOutcomes(enabled) == IF enabled THEN {"raise", "returns"} ELSE {"skipped"}

\* "except Exception" around mlflow.last_active_trace()
TraceLookupCatchesOff == FALSE
TraceLookupCatches == TRUE

\* bare "except:" around json.loads and parsed.get
ParseCatches == TRUE

\* "except Exception" around get_last_active_trace_id and log_feedback
SinkCatchesOff == FALSE
SinkCatches == TRUE

InterruptPayload(content, trace_id) ==
    [type |-> "feedback_request",
     question |-> "Was this response helpful?",
     options |-> <<"yes", "no">>,
     response |-> Prefix(content, PreviewLen),
     traceId |-> trace_id]

\* resume values: a dict, a string (with what json.loads makes of it and
\* whether it contains "yes" in any case), None, or a value of another type
DictPayload(has_key, value) ==
    [kind |-> "dict", empty |-> FALSE, has_key |-> has_key, value |-> value,
     json |-> "n/a", has_yes |-> FALSE]

StrPayload(empty, json, has_key, value, has_yes) ==
    [kind |-> "str", empty |-> empty, has_key |-> has_key, value |-> value,
     json |-> json, has_yes |-> has_yes]

\* the texts 'Yes, thanks' and 'not sure', and None
YesThanks == StrPayload(FALSE, "invalid", FALSE, "", TRUE)
NotSure == StrPayload(FALSE, "invalid", FALSE, "", FALSE)
NonePayload ==
    [kind |-> "none", empty |-> TRUE, has_key |-> FALSE, value |-> "",
     json |-> "n/a", has_yes |-> FALSE]

ResumePayloads ==
    {DictPayload(TRUE, v) : v \in {"yes", "no", "maybe", ""}}
    \cup {DictPayload(FALSE, "")}
    \cup {[DictPayload(FALSE, "") EXCEPT !.empty = TRUE]}
    \cup {StrPayload(FALSE, "dict", TRUE, "yes", TRUE),    \* '{"feedback": "yes"}'
          StrPayload(FALSE, "dict", TRUE, "no", FALSE),    \* '{"feedback": "no"}'
          StrPayload(FALSE, "dict", FALSE, "", FALSE),     \* '{"rating": 5}'
          YesThanks,
          NotSure,
          StrPayload(FALSE, "other", FALSE, "", FALSE),    \* '123'
          StrPayload(TRUE, "invalid", FALSE, "", FALSE)}   \* ''
    \cup {NonePayload,
          [kind |-> "list", empty |-> FALSE, has_key |-> FALSE, value |-> "",
           json |-> "n/a", has_yes |-> FALSE]}

NoFeedback == "<None>"

\* lines 1166-1178: the feedback extracted from the resume value, and whether
\* an exception of the parse gets out of the node
extract_feedback_substring(data) ==
    IF data.empty THEN [feedback |-> NoFeedback, raised |-> FALSE, fell_back |-> FALSE]
    ELSE IF data.kind = "dict"
    THEN [feedback |-> IF data.has_key THEN data.value ELSE "",
          raised |-> FALSE, fell_back |-> FALSE]
    ELSE IF data.kind = "str"
    THEN [feedback |-> IF data.has_yes THEN "yes" ELSE "no",
          raised |-> FALSE, fell_back |-> TRUE]
    ELSE [feedback |-> NoFeedback, raised |-> FALSE, fell_back |-> FALSE]
extract_feedback(data) ==
    IF data.empty THEN [feedback |-> NoFeedback, raised |-> FALSE, fell_back |-> FALSE]
    ELSE IF data.kind = "dict"
    THEN [feedback |-> IF data.has_key THEN data.value ELSE "",
          raised |-> FALSE, fell_back |-> FALSE]
    ELSE IF data.kind = "str"
    THEN IF data.json = "dict"
         THEN [feedback |-> IF data.has_key THEN data.value ELSE "",
               raised |-> FALSE, fell_back |-> FALSE]
         ELSE IF ParseCatches
         THEN [feedback |-> IF data.has_yes THEN "yes" ELSE "no",
               raised |-> FALSE, fell_back |-> TRUE]
         ELSE [feedback |-> NoFeedback, raised |-> TRUE, fell_back |-> FALSE]
    ELSE [feedback |-> NoFeedback, raised |-> FALSE, fell_back |-> FALSE]

\* "if not feedback"
NotFeedback(f) == f \in {NoFeedback, ""}

FeedbackRecord(trace_id, feedback) ==
    [trace_id |-> trace_id, name |-> "user_satisfaction",
     value |-> (feedback = "yes"), source |-> "HUMAN"]

\* workflow.add_edge("feedback", END)
EdgeAfterFeedbackLoop == "agent"
EdgeAfterFeedback == "end"

\* feedback_node up to interrupt(): skip, or suspend with the payload
FeedbackEnter ==
    /\ pc = "feedback"
    /\ steps' = Append(steps, "feedback")
    /\ lastRaw' = <<>>
    /\ lastOut' = <<>>
    /\ IF LastAnswerIndex(messages) = 0
       THEN /\ pc' = EdgeAfterFeedback
            /\ UNCHANGED <<payload, faults>>
       ELSE \E lookup \in LookupOutcomes(mlflow_enabled) :
              IF lookup = "raise" /\ ~TraceLookupCatches
              THEN /\ pc' = "crashed"
                   /\ faults' = faults \cup {"trace_lookup"}
                   /\ UNCHANGED payload
              ELSE /\ pc' = "suspended"
                   /\ faults' = IF lookup = "raise"
                                THEN faults \cup {"trace_lookup"} ELSE faults
                   /\ payload' = InterruptPayload(
                          messages[LastAnswerIndex(messages)].content,
                          IF lookup = "trace" THEN last_active ELSE NoTrace)
    /\ UNCHANGED <<messages, error, frontend, mlflow_enabled, nextId, decisions,
                   batch, done, lastExc, route, records>>
    /\ UNCHANGED <<sent, resumed, scoring, settings, boot, bound, other, running>>
    /\ UNCHANGED <<executed, last_active, applied>>

scoreTwice(f, lookup, sink) ==
    IF lookup = "raise"
    THEN [raised |-> ~SinkCatches, records |-> records,
          faults |-> faults \cup {"trace_lookup"}]
    ELSE IF lookup = "trace"
    THEN IF sink = "raise"
         THEN [raised |-> ~SinkCatches, records |-> records,
               faults |-> faults \cup {"sink"}]
         ELSE [raised |-> FALSE,
               records |-> records \o <<FeedbackRecord(last_active, f),
                                        FeedbackRecord(last_active, f)>>,
               faults |-> faults]
    ELSE [raised |-> FALSE, records |-> records, faults |-> faults]
scoreWithoutTrace(f, lookup, sink) ==
    IF lookup = "raise"
    THEN [raised |-> ~SinkCatches, records |-> records,
          faults |-> faults \cup {"trace_lookup"}]
    ELSE IF sink = "raise"
    THEN [raised |-> ~SinkCatches, records |-> records,
          faults |-> faults \cup {"sink"}]
    ELSE [raised |-> FALSE,
          records |-> Append(records, FeedbackRecord(last_active, f)),
          faults |-> faults]
\* lines 1186-1216 for an extracted feedback f: the records and faults after
score(f, lookup, sink) ==
    IF lookup = "raise"
    THEN [raised |-> ~SinkCatches, records |-> records,
          faults |-> faults \cup {"trace_lookup"}]
    ELSE IF lookup = "trace"
    THEN IF sink = "raise"
         THEN [raised |-> ~SinkCatches, records |-> records,
               faults |-> faults \cup {"sink"}]
         ELSE [raised |-> FALSE,
               records |-> Append(records, FeedbackRecord(last_active, f)),
               faults |-> faults]
    ELSE [raised |-> FALSE, records |-> records, faults |-> faults]

\* the resume signal arrives with one of payloads: the node runs again from its
\* first line (the trace lookup included), interrupt() returns the payload and
\* the node runs on
FeedbackResumes(payloads) ==
    /\ pc = "suspended"
    /\ \E data \in payloads, relookup \in RerunOutcomes(mlflow_enabled) :
         LET x == extract_feedback(data)
             seen == IF relookup = "raise"
                     THEN faults \cup {"trace_lookup"} ELSE faults
             parsed == IF x.fell_back THEN {"parse"} ELSE {} IN
         /\ resumed' = data
         /\ IF relookup = "raise" /\ ~TraceLookupCatches
            THEN /\ pc' = "crashed"
                 /\ faults' = seen
                 /\ UNCHANGED <<records, scoring>>
            ELSE IF x.raised
            THEN /\ pc' = "crashed"
                 /\ faults' = seen \cup {"parse"}
                 /\ UNCHANGED <<records, scoring>>
            ELSE IF NotFeedback(x.feedback)
            THEN /\ pc' = EdgeAfterFeedback
                 /\ faults' = seen \cup parsed
                 /\ UNCHANGED <<records, scoring>>
            ELSE \E lookup \in LookupOutcomes(mlflow_enabled) :
                 \E sink \in SinkCalls(lookup) :
                   LET r == score(x.feedback, lookup, sink) IN
                   /\ pc' = IF r.raised THEN "crashed" ELSE EdgeAfterFeedback
                   /\ records' = r.records
                   /\ faults' = seen \cup r.faults \cup parsed
                   /\ scoring' = lookup
    /\ UNCHANGED <<messages, error, frontend, mlflow_enabled, nextId, decisions,
                   batch, done, lastExc, lastRaw, lastOut, route, steps, payload,
                   sent, settings, boot, bound, other, running, executed,
                   last_active, applied>>

\* the resume values a turn is explored with: the object the caller is to send,
\* a bare text and no value
TurnPayloads == {DictPayload(TRUE, "yes"), NotSure, NonePayload}

FeedbackResume == FeedbackResumes(TurnPayloads)

-----------------------------------------------------------------------------
(* The turn *)

Question == Text(<<"who works on llm-d">>, 18)

\* make_initial_state: a new human message, no error, the caller's actions
Init ==
    /\ pc = EntryPoint
    /\ messages = <<HumanMessage(1, Question)>>
    /\ error = NoError
    /\ frontend \in SUBSET {FrontendTool}
    /\ mlflow_enabled \in BOOLEAN
    /\ nextId = 2
    /\ decisions = 0
    /\ batch = <<>>
    /\ done = <<>>
    /\ lastExc = NoException
    /\ lastRaw = <<>>
    /\ lastOut = <<>>
    /\ route = NoRoute
    /\ steps = <<>>
    /\ payload = NoPayload
    /\ records = <<>>
    /\ faults = {}
    /\ sent = <<>>
    /\ resumed = NotResumed
    /\ scoring = NotScored
    /\ settings = ResolvedSettings
    /\ boot = Ready
    /\ bound = <<>>
    /\ other = NoTurn
    /\ running = 1
    /\ executed = EmptyBag
    /\ last_active = NoTrace
    /\ applied = <<>>

Next ==
    \/ AgentNode
    \/ Route
    \/ ToolsStart
    \/ ToolComplete
    \/ ToolsReturn
    \/ FeedbackEnter
    \/ FeedbackResume

Spec == Init /\ [][Next]_vars

-----------------------------------------------------------------------------
(* should_continue applied to any transcript *)

\* one message of each kind the router tells apart
RouterShapes ==
    {SystemMessage(1, Question),
     HumanMessage(1, Question),
     AIMessage(1, Text(<<"answer">>, 200), <<>>),
     AIMessage(1, EmptyText, <<ToolCall(2, FrontendTool)>>),
     ToolMessage(1, Text(<<"Found", "experts">>, 400), 2, "success")}

RouterTranscripts == UNION {[1..k -> RouterShapes] : k \in 0..MaxTranscript}

InitRouter ==
    /\ pc = "route"
    /\ messages \in RouterTranscripts
    /\ error \in {NoError, Text(<<"Agent error:", "TimeoutError">>, 27)}
    /\ frontend = {}
    /\ mlflow_enabled = TRUE
    /\ nextId = 3
    /\ decisions = 0
    /\ batch = <<>>
    /\ done = <<>>
    /\ lastExc = NoException
    /\ lastRaw = <<>>
    /\ lastOut = <<>>
    /\ route = NoRoute
    /\ steps = <<>>
    /\ payload = NoPayload
    /\ records = <<>>
    /\ faults = {}
    /\ sent = <<>>
    /\ resumed = NotResumed
    /\ scoring = NotScored
    /\ settings = ResolvedSettings
    /\ boot = Ready
    /\ bound = <<>>
    /\ other = NoTurn
    /\ running = 1
    /\ executed = EmptyBag
    /\ last_active = NoTrace
    /\ applied = <<>>

NextRouter == Route

SpecRouter == InitRouter /\ [][NextRouter]_vars

-----------------------------------------------------------------------------
(* agent_node and tool_node on texts of any size and on messages with parent *)
(* references                                                                *)

\* lengths of tool results and of oracle responses, around the ceilings
ToolLens == {400, 10000, 10001, 15000}
ResponseLens == {200, 50001, 60000}

ParentAttributes ==
    {"parentMessageId", "parent_id", "kw_parentMessageId", "kw_parent_id"}

\* one reference that is null, one null attribute that cannot be deleted, and
\* all references set
ParentCases ==
    {[NoParents EXCEPT ![a] = Null] : a \in ParentAttributes}
    \cup {[NoParents EXCEPT !.parentMessageId = Null, !.deletable = FALSE]}
    \cup {[parentMessageId |-> ParentValue, parent_id |-> ParentValue,
           kw_parentMessageId |-> ParentValue, kw_parent_id |-> ParentValue,
           deletable |-> TRUE]}

\* oracle responses: a text of any length, a short or a long one that asks for
\* one more tool call, or a short answer with parent references
SizedResponses(n) ==
    {AIMessage(None, Text(<<"answer">>, len), <<>>) : len \in ResponseLens}
    \cup
    {AIMessage(None, Text(<<"answer">>, len),
               <<ToolCall(n + 1, "find_experts_by_topic")>>) :
        len \in {200, 60000}}
    \cup
    {Attach(AIMessage(None, Text(<<"answer">>, 200), <<>>), p) : p \in ParentCases}

SizedOutcomes(n) ==
    {[exc |-> NoException, at |-> "none", response |-> r] :
        r \in SizedResponses(n)}

\* what ToolNode may return for a call: a text of any length, or a short one
\* on a message with parent references
SizedResults(call) ==
    {ToolMessage(None, Text(<<"Found", "experts">>, len), call.id, "success") :
        len \in ToolLens}
    \cup
    {Attach(ToolResultMessage(call), p) : p \in ParentCases}

AgentNodeAny ==
    /\ decisions < MaxPasses
    /\ AgentRuns(SizedOutcomes(nextId))

\* tool_node for the one call of the last message, ToolNode returning one of
\* results
ToolNodeReturns(results) ==
    /\ pc = "tools"
    /\ decisions < MaxPasses
    /\ Len(PendingCalls(messages)) = 1
    /\ \E result \in results :
         LET out == PostProcess(<<result>>, nextId) IN
         /\ messages' = messages \o out
         /\ lastRaw' = <<result>>
         /\ lastOut' = out
    /\ executed' = executed (+) SetToBag({PendingCalls(messages)[1].id})
    /\ nextId' = nextId + 1
    /\ pc' = EdgeAfterTools
    /\ steps' = Append(steps, "tools")
    /\ UNCHANGED <<error, frontend, mlflow_enabled, decisions, batch, done,
                   lastExc, route, payload, records, faults, sent, resumed,
                   scoring, settings, boot, bound, other, running, last_active,
                   applied>>

ToolNodeAny == ToolNodeReturns(SizedResults(PendingCalls(messages)[1]))

\* the transcripts a turn may start from
StartTranscripts ==
    {<<>>,
     <<HumanMessage(1, Question)>>,
     <<SystemMessage(1, DEFAULT_SYSTEM_PROMPT), HumanMessage(2, Question)>>}

InitMessages ==
    /\ pc = EntryPoint
    /\ messages \in StartTranscripts
    /\ error = NoError
    /\ frontend = {}
    /\ mlflow_enabled = FALSE
    /\ nextId = 3
    /\ decisions = 0
    /\ batch = <<>>
    /\ done = <<>>
    /\ lastExc = NoException
    /\ lastRaw = <<>>
    /\ lastOut = <<>>
    /\ route = NoRoute
    /\ steps = <<>>
    /\ payload = NoPayload
    /\ records = <<>>
    /\ faults = {}
    /\ sent = <<>>
    /\ resumed = NotResumed
    /\ scoring = NotScored
    /\ settings = ResolvedSettings
    /\ boot = Ready
    /\ bound = <<>>
    /\ other = NoTurn
    /\ running = 1
    /\ executed = EmptyBag
    /\ last_active = NoTrace
    /\ applied = <<>>

NextMessages ==
    \/ AgentNodeAny
    \/ Route
    \/ ToolNodeAny

SpecMessages == InitMessages /\ [][NextMessages]_vars

-----------------------------------------------------------------------------
(* tool_node on results of any text: the error marking *)

\* texts a tool may return: the texts of the Neo4j tools (found, nothing
\* found, no connection, a caught exception), texts with each signature, and
\* texts that come close to one
ReturnedTexts ==
    {<<"Found", "experts">>,
     <<"No experts found for topic:", "llm-d">>,
     <<"Error:", "Unable to connect to Neo4j database">>,
     <<"Error finding experts:", "ServiceUnavailable">>,
     <<"requests", "HTTPError:", "404">>,
     <<"ValueError:", "bad label">>,
     <<"HTTP error", "500">>,
     <<"http error", "500">>,
     <<"Traceback", "(most recent call last)">>,
     <<"Property", "does not exist for the field">>,
     <<"error", "connecting">>,
     <<"ERROR">>,
     <<"Errors", "0">>,
     <<"No", "error", "found">>,
     <<"No", "errors:", "none">>,
     <<>>}

\* lengths of the texts: under and over the ceiling of agent_node
MarkedLens == {400, 15000}

\* what ToolNode may return for a call: the text its tool returned, or its own
\* answer to a tool that raised or that it does not know
MarkedResults(call) ==
    {ToolMessage(None, Text(t, IF t = <<>> THEN 0 ELSE len), call.id, "success") :
        t \in ReturnedTexts, len \in MarkedLens}
    \cup {ToolErrorMessage(call), InvalidToolMessage(call)}

ToolNodeMarks == ToolNodeReturns(MarkedResults(PendingCalls(messages)[1]))

\* the oracle asks for a tool or answers
MarkingResponses(n) ==
    {AIMessage(None, Text(<<"answer">>, 200), <<>>),
     AIMessage(None, Text(<<"answer">>, 200),
               <<ToolCall(n + 1, "find_experts_by_topic")>>)}

\* the oracle answers, or the invocation fails
MarkingOutcomes(n) ==
    {[exc |-> NoException, at |-> "none", response |-> r] :
        r \in MarkingResponses(n)}
    \cup
    {[exc |-> e, at |-> "invoke", response |-> NoResponse] : e \in Exceptions}

AgentNodeMarking ==
    /\ decisions < MaxDecisions
    /\ AgentRuns(MarkingOutcomes(nextId))

InitMarking ==
    /\ pc = EntryPoint
    /\ messages = <<HumanMessage(1, Question)>>
    /\ error = NoError
    /\ frontend = {}
    /\ mlflow_enabled = FALSE
    /\ nextId = 2
    /\ decisions = 0
    /\ batch = <<>>
    /\ done = <<>>
    /\ lastExc = NoException
    /\ lastRaw = <<>>
    /\ lastOut = <<>>
    /\ route = NoRoute
    /\ steps = <<>>
    /\ payload = NoPayload
    /\ records = <<>>
    /\ faults = {}
    /\ sent = <<>>
    /\ resumed = NotResumed
    /\ scoring = NotScored
    /\ settings = ResolvedSettings
    /\ boot = Ready
    /\ bound = <<>>
    /\ other = NoTurn
    /\ running = 1
    /\ executed = EmptyBag
    /\ last_active = NoTrace
    /\ applied = <<>>

NextMarking ==
    \/ AgentNodeMarking
    \/ Route
    \/ ToolNodeMarks
    \/ FeedbackEnter
    \/ FeedbackResume

SpecMarking == InitMarking /\ [][NextMarking]_vars

-----------------------------------------------------------------------------
(* A turn of several passes of tool_node *)

\* the ids of calls, as a bag
RECURSIVE Ids(_)
Ids(calls) ==
    IF calls = <<>> THEN EmptyBag
    ELSE SetToBag({Head(calls).id}) (+) Ids(Tail(calls))

\* tool_node as one step: ToolNode runs every call of the last message, each
\* with one of its outcomes, and the wrapper post-processes the results
ToolNodePass ==
    /\ pc = "tools"
    /\ decisions < MaxPasses
    /\ Len(PendingCalls(messages)) > 0
    /\ LET calls == PendingCalls(messages) IN
       \E outcomes \in [1..Len(calls) -> ToolOutcomes \cup {"invalid"}] :
         /\ \A k \in 1..Len(calls) : outcomes[k] \in OutcomesOf(calls[k])
         /\ LET results == [k \in 1..Len(calls) |->
                               run_one(calls[k], outcomes[k])]
                out == PostProcess(results, nextId) IN
            /\ messages' = messages \o out
            /\ lastRaw' = results
            /\ lastOut' = out
         /\ nextId' = nextId + Len(calls)
         /\ executed' = executed (+) Ids(calls)
         /\ faults' = faults
                        \cup ({outcomes[k] : k \in 1..Len(calls)} \ {"ok"})
    /\ pc' = EdgeAfterTools
    /\ steps' = Append(steps, "tools")
    /\ UNCHANGED <<error, frontend, mlflow_enabled, decisions, batch, done,
                   lastExc, route, payload, records, sent, resumed, scoring,
                   settings, boot, bound, other, running, last_active, applied>>

\* the requests of these turns: one tool of those bound, or up to MaxCalls
\* tools of the registry
PassNames ==
    {names \in CallNames :
        Len(names) = 1 \/ \A k \in 1..Len(names) : names[k] \in Registry}

\* what the oracle may do in these turns: fail, answer, or ask for tools
PassOutcomes(n) ==
    {[exc |-> e, at |-> "invoke", response |-> NoResponse] : e \in Exceptions}
    \cup
    {[exc |-> NoException, at |-> "none", response |-> r] :
        r \in {AIMessage(None, Text(<<"answer">>, 200), <<>>)}
              \cup {AIMessage(None, EmptyText, CallsFrom(names, n + 1)) :
                      names \in PassNames}}

AgentNodePasses ==
    /\ decisions < MaxPasses
    /\ AgentRuns(PassOutcomes(nextId))

NextPasses ==
    \/ AgentNodePasses
    \/ Route
    \/ ToolNodePass

SpecPasses == Init /\ [][NextPasses]_vars

-----------------------------------------------------------------------------
(* feedback_node on any transcript and any resume value *)

\* one message of each kind feedback_node tells apart, and two answers
FeedbackShapes ==
    {HumanMessage(1, Question),
     AIMessage(1, Text(<<"answer">>, 200), <<>>),
     AIMessage(1, Text(<<"draft">>, 800), <<>>),
     AIMessage(1, EmptyText, <<ToolCall(2, "find_experts_by_topic")>>),
     ToolMessage(1, Text(<<"Found", "experts">>, 400), 2, "success")}

FeedbackTranscripts == UNION {[1..k -> FeedbackShapes] : k \in 0..MaxTranscript}

InitFeedback ==
    /\ pc = "feedback"
    /\ messages \in FeedbackTranscripts
    /\ error = NoError
    /\ frontend = {}
    /\ mlflow_enabled \in BOOLEAN
    /\ nextId = 3
    /\ decisions = 0
    /\ batch = <<>>
    /\ done = <<>>
    /\ lastExc = NoException
    /\ lastRaw = <<>>
    /\ lastOut = <<>>
    /\ route = NoRoute
    /\ steps = <<>>
    /\ payload = NoPayload
    /\ records = <<>>
    /\ faults = {}
    /\ sent = <<>>
    /\ resumed = NotResumed
    /\ scoring = NotScored
    /\ settings = ResolvedSettings
    /\ boot = Ready
    /\ bound = <<>>
    /\ other = NoTurn
    /\ running = 1
    /\ executed = EmptyBag
    /\ last_active = IF mlflow_enabled THEN TraceId ELSE NoTrace
    /\ applied = <<>>

FeedbackResumeAny == FeedbackResumes(ResumePayloads)

NextFeedback ==
    \/ FeedbackEnter
    \/ FeedbackResumeAny

SpecFeedback == InitFeedback /\ [][NextFeedback]_vars

-----------------------------------------------------------------------------
(* A turn under a timeout of its caller *)

\* what a caller's timeout raises in the task it cancels, at the await the
\* task is pending on: asyncio.CancelledError, a BaseException that is not an
\* Exception
CancelledError ==
    [name |-> "CancelledError", base |-> "BaseException", nameLen |-> 14,
     strLen |-> 0]

\* the run of the try block that is cancelled while it awaits ainvoke
CancelledOutcome ==
    [exc |-> CancelledError, at |-> "invoke", response |-> NoResponse]

AgentNodeTimed ==
    /\ decisions < MaxDecisions
    /\ AgentRuns(AgentOutcomes(nextId) \cup {CancelledOutcome})

\* the caller's timeout passes while the turn is suspended: interrupt() has
\* ended the run of the graph, no task is pending and no line of the program
\* runs
SuspensionTimesOut ==
    /\ pc = "suspended"
    /\ "timeout" \notin faults
    /\ faults' = faults \cup {"timeout"}
    /\ UNCHANGED <<pc, messages, error, frontend, mlflow_enabled, nextId,
                   decisions, batch, done, lastExc, lastRaw, lastOut, route,
                   steps, payload, records, sent, resumed, scoring,
                   settings, boot, bound, other, running, executed,
                   last_active, applied>>

NextTimeout ==
    \/ AgentNodeTimed
    \/ Route
    \/ ToolsStart
    \/ ToolComplete
    \/ ToolsReturn
    \/ FeedbackEnter
    \/ SuspensionTimesOut
    \/ FeedbackResume

SpecTimeout == Init /\ [][NextTimeout]_vars

-----------------------------------------------------------------------------
(* The module load, and the Decision Steps of the first turn after it *)

\* settings = Settings(): the validator runs on the fields read
ResolveSettings ==
    /\ pc = "settings"
    /\ LET r == resolve_api_key(settings) IN
       /\ settings' = r.settings
       /\ boot' = [boot EXCEPT !.error = r.error]
       /\ pc' = IF r.raised THEN "failed" ELSE "prompt"
    /\ UNCHANGED <<messages, error, frontend, mlflow_enabled, nextId, decisions,
                   batch, done, lastExc, lastRaw, lastOut, route, steps, payload,
                   records, faults, sent, resumed, scoring, bound, other,
                   running, executed, last_active, applied>>

\* the registry is asked only when tracing is enabled
PromptLookups(enabled) == IF enabled THEN PromptOutcomes ELSE {"not called"}

\* SYSTEM_PROMPT = _load_prompt_from_mlflow()
LoadPrompt ==
    /\ pc = "prompt"
    /\ \E lookup \in PromptLookups(mlflow_enabled) :
         LET r == load_prompt_from_mlflow(mlflow_enabled, lookup) IN
         /\ pc' = IF r.raised THEN "failed" ELSE "load_tools"
         /\ boot' = IF r.raised THEN boot
                    ELSE [boot EXCEPT !.SYSTEM_PROMPT = r.text]
         /\ faults' = IF lookup = "raise" THEN faults \cup {"prompt_lookup"}
                      ELSE faults
    /\ UNCHANGED <<messages, error, frontend, mlflow_enabled, nextId, decisions,
                   batch, done, lastExc, lastRaw, lastOut, route, steps, payload,
                   records, sent, resumed, scoring, settings, bound, other,
                   running, executed, last_active, applied>>

\* the MCP server is asked only when Jira is configured
McpFetches(s) == IF jira_configured(s) THEN McpOutcomes ELSE {"not called"}

\* all_tools = asyncio.run(load_tools())
LoadTools ==
    /\ pc = "load_tools"
    /\ \E driver \in DriverOutcomes, mcp \in McpFetches(settings) :
         LET r == load_tools(settings, driver, mcp) IN
         /\ pc' = IF r.raised THEN "failed" ELSE "bind"
         /\ boot' = IF r.raised THEN boot
                    ELSE [boot EXCEPT !.all_tools = r.tools]
         /\ faults' = faults
                        \cup (IF driver = "none" THEN {"neo4j"} ELSE {})
                        \cup (IF mcp = "raise" THEN {"mcp"} ELSE {})
    /\ UNCHANGED <<messages, error, frontend, mlflow_enabled, nextId, decisions,
                   batch, done, lastExc, lastRaw, lastOut, route, steps, payload,
                   records, sent, resumed, scoring, settings, bound, other,
                   running, executed, last_active, applied>>

\* model = get_model(); model_with_tools = model.bind_tools(all_tools); the
\* module is loaded and the first turn starts
BindTools ==
    /\ pc = "bind"
    /\ LET r == get_model(settings) IN
       /\ boot' = IF r.raised THEN boot
                  ELSE [boot EXCEPT !.model = r.model,
                                    !.model_with_tools = boot.all_tools]
       /\ pc' = IF r.raised THEN "failed" ELSE EntryPoint
    /\ UNCHANGED <<messages, error, frontend, mlflow_enabled, nextId, decisions,
                   batch, done, lastExc, lastRaw, lastOut, route, steps, payload,
                   records, faults, sent, resumed, scoring, settings, bound,
                   other, running, executed, last_active, applied>>

\* tool_node when the tool returns its text
ToolNodeFound ==
    ToolNodeReturns({ToolResultMessage(PendingCalls(messages)[1])})

InitStartup ==
    /\ pc = "settings"
    /\ messages = <<HumanMessage(1, Question)>>
    /\ error = NoError
    /\ frontend = {}
    /\ mlflow_enabled \in BOOLEAN
    /\ nextId = 2
    /\ decisions = 0
    /\ batch = <<>>
    /\ done = <<>>
    /\ lastExc = NoException
    /\ lastRaw = <<>>
    /\ lastOut = <<>>
    /\ route = NoRoute
    /\ steps = <<>>
    /\ payload = NoPayload
    /\ records = <<>>
    /\ faults = {}
    /\ sent = <<>>
    /\ resumed = NotResumed
    /\ scoring = NotScored
    /\ settings \in EnvSettings
    /\ boot = NotLoaded
    /\ bound = <<>>
    /\ other = NoTurn
    /\ running = 1
    /\ executed = EmptyBag
    /\ last_active = NoTrace
    /\ applied = <<>>

NextStartup ==
    \/ ResolveSettings
    \/ LoadPrompt
    \/ LoadTools
    \/ BindTools
    \/ AgentNodeMarking
    \/ Route
    \/ ToolNodeFound

SpecStartup == InitStartup /\ [][NextStartup]_vars

-----------------------------------------------------------------------------
(* Two turns interleaved in one process *)

\* the state of the running turn: its LangGraph state and the position and
\* locals of its run
TurnState ==
    [pc |-> pc, messages |-> messages, error |-> error, frontend |-> frontend,
     nextId |-> nextId, decisions |-> decisions, batch |-> batch, done |-> done,
     lastExc |-> lastExc, lastRaw |-> lastRaw, lastOut |-> lastOut,
     route |-> route, steps |-> steps, payload |-> payload, faults |-> faults,
     sent |-> sent, resumed |-> resumed, scoring |-> scoring, bound |-> bound,
     executed |-> executed]

\* the event loop goes from the running turn to the other one, at an await or
\* between two nodes: each turn keeps its own state, the globals of the module
\* and the sink are the same for both
Switch ==
    /\ other # NoTurn
    /\ other' = TurnState
    /\ pc' = other.pc
    /\ messages' = other.messages
    /\ error' = other.error
    /\ frontend' = other.frontend
    /\ nextId' = other.nextId
    /\ decisions' = other.decisions
    /\ batch' = other.batch
    /\ done' = other.done
    /\ lastExc' = other.lastExc
    /\ lastRaw' = other.lastRaw
    /\ lastOut' = other.lastOut
    /\ route' = other.route
    /\ steps' = other.steps
    /\ payload' = other.payload
    /\ faults' = other.faults
    /\ sent' = other.sent
    /\ resumed' = other.resumed
    /\ scoring' = other.scoring
    /\ bound' = other.bound
    /\ executed' = other.executed
    /\ running' = 3 - running
    /\ UNCHANGED <<mlflow_enabled, records, settings, boot, last_active,
                   applied>>

\* the question of the second turn
Question2 == Text(<<"who knows vllm">>, 14)

\* make_initial_state for the second turn, with the caller's actions
SecondTurn(actions) ==
    [pc |-> EntryPoint, messages |-> <<HumanMessage(1, Question2)>>,
     error |-> NoError, frontend |-> actions, nextId |-> 2, decisions |-> 0,
     batch |-> <<>>, done |-> <<>>, lastExc |-> NoException, lastRaw |-> <<>>,
     lastOut |-> <<>>, route |-> NoRoute, steps |-> <<>>,
     payload |-> NoPayload, faults |-> {}, sent |-> <<>>,
     resumed |-> NotResumed, scoring |-> NotScored, bound |-> <<>>,
     executed |-> EmptyBag]

\* what the oracle may do in these turns: fail, answer, or ask for a tool of
\* those bound
TurnOutcomes(n) ==
    {[exc |-> e, at |-> "invoke", response |-> NoResponse] : e \in Exceptions}
    \cup
    {[exc |-> NoException, at |-> "none", response |-> r] :
        r \in {AIMessage(None, Text(<<"answer">>, 200), <<>>)}
              \cup {AIMessage(None, EmptyText, <<ToolCall(n + 1, name)>>) :
                      name \in ToolNames}}

AgentNodeTurns ==
    /\ decisions < MaxDecisions
    /\ AgentRuns(TurnOutcomes(nextId))

\* tool_node for the one call of the last message, whatever ToolNode makes of
\* it
ToolNodeTurns ==
    ToolNodeReturns({run_one(PendingCalls(messages)[1], outcome) :
                       outcome \in OutcomesOf(PendingCalls(messages)[1])})

InitTurns ==
    /\ pc = EntryPoint
    /\ messages = <<HumanMessage(1, Question)>>
    /\ error = NoError
    /\ frontend \in SUBSET {FrontendTool}
    /\ mlflow_enabled = FALSE
    /\ nextId = 2
    /\ decisions = 0
    /\ batch = <<>>
    /\ done = <<>>
    /\ lastExc = NoException
    /\ lastRaw = <<>>
    /\ lastOut = <<>>
    /\ route = NoRoute
    /\ steps = <<>>
    /\ payload = NoPayload
    /\ records = <<>>
    /\ faults = {}
    /\ sent = <<>>
    /\ resumed = NotResumed
    /\ scoring = NotScored
    /\ settings = ResolvedSettings
    /\ boot = Ready
    /\ bound = <<>>
    /\ other \in {SecondTurn(actions) : actions \in SUBSET {FrontendTool}}
    /\ running = 1
    /\ executed = EmptyBag
    /\ last_active = NoTrace
    /\ applied = <<>>

NextTurns ==
    \/ AgentNodeTurns
    \/ Route
    \/ ToolNodeTurns
    \/ FeedbackEnter
    \/ FeedbackResume
    \/ Switch

SpecTurns == InitTurns /\ [][NextTurns]_vars

-----------------------------------------------------------------------------
(* Two traced turns interleaved in one process *)

\* what the oracle may do in these turns: answer, or fail
TracedOutcomes(n) ==
    {o \in MarkingOutcomes(n) :
        o.exc # NoException \/ o.response.tool_calls = <<>>}

AgentNodeTraced ==
    /\ decisions < MaxDecisions
    /\ AgentRuns(TracedOutcomes(nextId))

\* two turns of a process that traces, the first one running
InitTraces ==
    /\ pc = EntryPoint
    /\ messages = <<HumanMessage(1, Question)>>
    /\ error = NoError
    /\ frontend = {}
    /\ mlflow_enabled = TRUE
    /\ nextId = 2
    /\ decisions = 0
    /\ batch = <<>>
    /\ done = <<>>
    /\ lastExc = NoException
    /\ lastRaw = <<>>
    /\ lastOut = <<>>
    /\ route = NoRoute
    /\ steps = <<>>
    /\ payload = NoPayload
    /\ records = <<>>
    /\ faults = {}
    /\ sent = <<>>
    /\ resumed = NotResumed
    /\ scoring = NotScored
    /\ settings = ResolvedSettings
    /\ boot = Ready
    /\ bound = <<>>
    /\ other = SecondTurn({})
    /\ running = 1
    /\ executed = EmptyBag
    /\ last_active = NoTrace
    /\ applied = <<>>

NextTraces ==
    \/ AgentNodeTraced
    \/ Route
    \/ FeedbackEnter
    \/ FeedbackResume
    \/ Switch

SpecTraces == InitTraces /\ [][NextTraces]_vars

-----------------------------------------------------------------------------
(* The turns of one thread, one after the other *)

\* turns of a thread that are explored
MaxTurns == 2

\* the caller sends the next message of the thread after a turn has ended: the
\* input has the keys of make_initial_state, "messages" is added to the
\* messages the thread has, and the keys the input does not have ("error")
\* keep the values the earlier turn left
NextTurn ==
    /\ pc = "end"
    /\ running < MaxTurns
    /\ messages' = Append(messages, HumanMessage(nextId, Question2))
    /\ nextId' = nextId + 1
    /\ running' = running + 1
    /\ pc' = EntryPoint
    /\ decisions' = 0
    /\ batch' = <<>>
    /\ done' = <<>>
    /\ lastExc' = NoException
    /\ lastRaw' = <<>>
    /\ lastOut' = <<>>
    /\ route' = NoRoute
    /\ steps' = <<>>
    /\ payload' = NoPayload
    /\ faults' = {}
    /\ sent' = <<>>
    /\ resumed' = NotResumed
    /\ scoring' = NotScored
    /\ bound' = <<>>
    /\ executed' = EmptyBag
    /\ UNCHANGED <<error, frontend, mlflow_enabled, records, settings, boot,
                   other, last_active, applied>>

NextSession ==
    \/ AgentNodeMarking
    \/ Route
    \/ ToolNodeFound
    \/ FeedbackEnter
    \/ FeedbackResume
    \/ NextTurn

SpecSession == Init /\ [][NextSession]_vars

-----------------------------------------------------------------------------
(* A turn whose oracle comes to an answer, under fair scheduling *)

\* agent_node when the oracle asks for tools on its first invocations and
\* answers, or fails, on invocation MaxPasses at the latest
AgentNodeLive ==
    /\ decisions < MaxPasses
    /\ AgentRuns(IF decisions < MaxPasses - 1
                 THEN MarkingOutcomes(nextId)
                 ELSE TracedOutcomes(nextId))

NextLive ==
    \/ AgentNodeLive
    \/ Route
    \/ ToolNodeFound
    \/ FeedbackEnter
    \/ FeedbackResume

\* the graph runs the node that is next, a tool that is called returns and the
\* caller delivers the resume signal
SpecLive == Init /\ [][NextLive]_vars /\ WF_vars(NextLive)

-----------------------------------------------------------------------------
(* get_neo4j_driver called again and again *)

\* calls of get_neo4j_driver that are explored
MaxDriverCalls == 5

\* the settings, with and without the username and the password of Neo4j
DriverSettings ==
    {ResolvedSettings @@ [neo4j_username |-> u, neo4j_password |-> p] :
        u \in {"", "neo4j"}, p \in {"", "secret"}}

\* what GraphDatabase.driver and verify_connectivity may do in a call that
\* finds no driver; a call that finds one runs neither
DriverAttempts(global) ==
    IF global = NoDriver
    THEN {<<"raise", "not called">>, <<"ok", "raise">>, <<"ok", "ok">>}
    ELSE {<<"not called", "not called">>}

\* one call of get_neo4j_driver(), by load_tools or by a tool
GetNeo4jDriver ==
    /\ pc = "driver"
    /\ Len(applied) < MaxDriverCalls
    /\ \E attempt \in DriverAttempts(boot.neo4j_driver) :
         LET r == get_neo4j_driver(boot.neo4j_driver, settings, attempt[1],
                                   attempt[2], Len(applied) + 1) IN
         /\ boot' = [boot EXCEPT !.neo4j_driver = r.global]
         /\ applied' = Append(applied,
                              [fn |-> "get_neo4j_driver", create |-> attempt[1],
                               verify |-> attempt[2], result |-> r.returned])
    /\ UNCHANGED <<pc, messages, error, frontend, mlflow_enabled, nextId,
                   decisions, batch, done, lastExc, lastRaw, lastOut, route,
                   steps, payload, records, faults, sent, resumed, scoring,
                   settings, bound, other, running, executed, last_active>>

InitDriver ==
    /\ pc = "driver"
    /\ messages = <<>>
    /\ error = NoError
    /\ frontend = {}
    /\ mlflow_enabled = FALSE
    /\ nextId = 1
    /\ decisions = 0
    /\ batch = <<>>
    /\ done = <<>>
    /\ lastExc = NoException
    /\ lastRaw = <<>>
    /\ lastOut = <<>>
    /\ route = NoRoute
    /\ steps = <<>>
    /\ payload = NoPayload
    /\ records = <<>>
    /\ faults = {}
    /\ sent = <<>>
    /\ resumed = NotResumed
    /\ scoring = NotScored
    /\ settings \in DriverSettings
    /\ boot = NotLoaded
    /\ bound = <<>>
    /\ other = NoTurn
    /\ running = 1
    /\ executed = EmptyBag
    /\ last_active = NoTrace
    /\ applied = <<>>

NextDriver == GetNeo4jDriver

SpecDriver == InitDriver /\ [][NextDriver]_vars

-----------------------------------------------------------------------------
(* trim_tool_response applied to any content with any max_chars *)

\* the largest max_chars and the longest content that are explored
MaxChars == 10
MaxContent == 12

\* the result of a call that has not returned
NotApplied == [text |-> <<"not applied">>, len |-> 0]

\* a call of trim_tool_response(content, max_chars) that is about to be made
TrimCalls ==
    {[fn |-> "trim_tool_response", content |-> Text(<<"content">>, n),
      max_chars |-> m, result |-> NotApplied] :
        n \in 0..MaxContent, m \in 1..MaxChars}

\* trim_tool_response(content, max_chars) returns
TrimApplied ==
    /\ pc = "trim"
    /\ Len(applied) = 1
    /\ applied[1].result = NotApplied
    /\ applied' = <<[applied[1] EXCEPT !.result =
                       trim_tool_response(applied[1].content,
                                          applied[1].max_chars)]>>
    /\ UNCHANGED <<pc, messages, error, frontend, mlflow_enabled, nextId,
                   decisions, batch, done, lastExc, lastRaw, lastOut, route,
                   steps, payload, records, faults, sent, resumed, scoring,
                   settings, boot, bound, other, running, executed,
                   last_active>>

InitTrim ==
    /\ pc = "trim"
    /\ messages = <<>>
    /\ error = NoError
    /\ frontend = {}
    /\ mlflow_enabled = FALSE
    /\ nextId = 1
    /\ decisions = 0
    /\ batch = <<>>
    /\ done = <<>>
    /\ lastExc = NoException
    /\ lastRaw = <<>>
    /\ lastOut = <<>>
    /\ route = NoRoute
    /\ steps = <<>>
    /\ payload = NoPayload
    /\ records = <<>>
    /\ faults = {}
    /\ sent = <<>>
    /\ resumed = NotResumed
    /\ scoring = NotScored
    /\ settings = ResolvedSettings
    /\ boot = Ready
    /\ bound = <<>>
    /\ other = NoTurn
    /\ running = 1
    /\ executed = EmptyBag
    /\ last_active = NoTrace
    /\ \E call \in TrimCalls : applied = <<call>>

NextTrim == TrimApplied

SpecTrim == InitTrim /\ [][NextTrim]_vars

-----------------------------------------------------------------------------
(* Properties *)

Last(seq) == seq[Len(seq)]

IsNode(s) == s # "route"

\* the nodes executed so far, without the consultations of the router
Nodes == SelectSeq(steps, IsNode)

\* index of the last AgentResponse of the transcript, 0 when there is none
LastAIIndex ==
    LET hits == {i \in 1..Len(messages) : messages[i].type = "ai"} IN
    IF hits = {} THEN 0 ELSE CHOOSE i \in hits : \A j \in hits : j <= i

\* a Tool Invoker pass has just returned
JustReturned ==
    /\ steps # <<>>
    /\ Last(steps) = "tools"
    /\ pc # "tools_wait"
    /\ pc # "crashed"

\* the ToolCalls the last AgentResponse requested
RequestedCalls == messages[LastAIIndex].tool_calls

\* the last Decision Step failed
DecisionFailed == lastExc # NoException

\* C1: the Router returns terminate for an empty Transcript, tools when the last
\* message is an AgentResponse with ToolCalls, feedback when it is an
\* AgentResponse without ToolCalls and terminate for a last message of any other
\* type; it returns nothing else, does not raise and leaves TurnState unchanged.
C1_RouterTotal ==
    [][pc = "route" =>
        /\ route' \in {"tools", "feedback", END}
        /\ pc' \in {"tools", "feedback", "end"}
        /\ (Len(messages) = 0 => route' = END)
        /\ (Len(messages) > 0 /\ Last(messages).type = "ai"
              /\ Last(messages).tool_calls # <<>> => route' = "tools")
        /\ (Len(messages) > 0 /\ Last(messages).type = "ai"
              /\ Last(messages).tool_calls = <<>> => route' = "feedback")
        /\ (Len(messages) > 0 /\ Last(messages).type # "ai" => route' = END)
        /\ messages' = messages
        /\ error' = error
        /\ frontend' = frontend
    ]_vars

C1_Witness ==
    /\ route = END
    /\ Len(messages) > 1
    /\ Last(messages).type = "tool"
    /\ error # NoError

\* C2: each Tool Invoker pass is followed by exactly one Decision Step before
\* the Router is consulted again, never by the Feedback Step, by termination or
\* by another Tool Invoker pass.
C2_ToolsThenDecision ==
    /\ \A i \in 1..Len(steps) :
         steps[i] = "tools" =>
           /\ (i < Len(steps) => steps[i + 1] = "agent")
           /\ (i + 1 < Len(steps) => steps[i + 2] = "route")
    /\ (steps # <<>> /\ Last(steps) = "tools" => pc \in {"tools_wait", "agent"})

C2_Witness ==
    /\ Len(steps) >= 5
    /\ steps[3] = "tools"
    /\ steps[4] = "agent"
    /\ steps[5] = "route"
    /\ pc = "feedback"

\* C3: the steps of a turn have the shape Decision (Tools Decision)* followed by
\* at most one Feedback Step, which runs only directly after a Decision Step
\* whose AgentResponse has no ToolCalls and after which no step runs.
C3_TurnShape ==
    /\ (Nodes # <<>> => Nodes[1] = "agent")
    /\ (Nodes = <<>> => pc = "agent")
    /\ \A i \in 1..Len(Nodes) :
         /\ (Nodes[i] = "agent" /\ i < Len(Nodes) =>
               Nodes[i + 1] \in {"tools", "feedback"})
         /\ (Nodes[i] = "tools" /\ i < Len(Nodes) => Nodes[i + 1] = "agent")
         /\ (Nodes[i] = "feedback" =>
               /\ i = Len(Nodes)
               /\ i > 1
               /\ Nodes[i - 1] = "agent"
               /\ Last(messages).type = "ai"
               /\ Last(messages).tool_calls = <<>>
               /\ pc \in {"suspended", "end"})
    /\ (pc \in {"suspended", "end"} => Last(Nodes) = "feedback")

C3_Witness ==
    /\ Nodes = <<"agent", "tools", "agent", "feedback">>
    /\ pc = "end"

\* C4: a Tool Invoker pass for n >= 1 ToolCalls returns, once every call of the
\* batch has completed and in whatever order they completed, exactly n
\* ToolResults whose call ids are the requested call ids in the requested order.
C4_ExactlyOnceInOrder ==
    /\ (pc = "tools_wait" =>
          /\ Last(messages).type = "ai"
          /\ Len(batch) = Len(Last(messages).tool_calls))
    /\ (JustReturned =>
          /\ Len(RequestedCalls) >= 1
          /\ Len(lastOut) = Len(RequestedCalls)
          /\ Len(done) = Len(RequestedCalls)
          /\ {done[k].i : k \in 1..Len(done)} = 1..Len(RequestedCalls)
          /\ \A j \in 1..Len(lastOut) :
               /\ lastOut[j].type = "tool"
               /\ lastOut[j].tool_call_id = RequestedCalls[j].id
          /\ SubSeq(messages, LastAIIndex + 1, Len(messages)) = lastOut)

C4_Witness ==
    /\ JustReturned
    /\ Len(done) = 2
    /\ done[1].i = 2
    /\ done[2].i = 1
    /\ lastOut[1].tool_call_id = RequestedCalls[1].id
    /\ lastOut[1].tool_call_id # lastOut[2].tool_call_id

\* C5: a ToolCall naming a tool that is not in the registry, a frontend tool
\* included, is answered by a ToolResult with the same call id, an explanatory
\* payload and the error classification; the other calls of the batch are
\* answered too and the turn goes on to a further Decision Step.
C5_UnknownTool ==
    /\ ("invalid" \in faults => pc # "crashed")
    /\ (JustReturned =>
          /\ Len(lastOut) = Len(RequestedCalls)
          /\ \A j \in 1..Len(RequestedCalls) :
               RequestedCalls[j].name \notin Registry =>
                 /\ lastOut[j].tool_call_id = RequestedCalls[j].id
                 /\ lastOut[j].error
                 /\ Contains(lastOut[j].content, RequestedCalls[j].name)
                 /\ Contains(lastOut[j].content, "is not a valid tool, try one of")
          /\ pc = "agent")

C5_Witness ==
    /\ frontend = {FrontendTool}
    /\ Len(steps) >= 4
    /\ steps[3] = "tools"
    /\ steps[4] = "agent"
    /\ Len(messages[2].tool_calls) = 2
    /\ messages[2].tool_calls[1].name = FrontendTool
    /\ messages[3].error
    /\ ~messages[4].error

\* C6: an exception raised by one tool of a batch is not propagated: its
\* ToolCall is answered by a textual ToolResult classified as error and every
\* other ToolCall of the batch is invoked and answered with its own result.
C6_ToolException ==
    /\ ("raise" \in faults => pc # "crashed")
    /\ (JustReturned =>
          /\ Len(lastOut) = Len(RequestedCalls)
          /\ \A k \in 1..Len(done) :
               /\ lastOut[done[k].i].tool_call_id = RequestedCalls[done[k].i].id
               /\ (done[k].outcome = "raise" =>
                     /\ lastOut[done[k].i].error
                     /\ lastOut[done[k].i].content.text # <<>>
                     /\ Contains(lastOut[done[k].i].content, "ToolException"))
               /\ (done[k].outcome = "ok" =>
                     /\ ~lastOut[done[k].i].error
                     /\ lastOut[done[k].i].content.text = <<"Found", "experts">>))

C6_Witness ==
    /\ JustReturned
    /\ Len(done) = 2
    /\ done[1].outcome = "raise"
    /\ done[2].outcome = "ok"
    /\ lastOut[done[1].i].error
    /\ ~lastOut[done[2].i].error

C8_FailureToFeedback ==
    faults \cap RaisePoints # {} =>
      /\ DecisionFailed
      /\ pc \in {"route", "feedback", "suspended", "end"}
      /\ Last(Nodes) \in {"agent", "feedback"}
      /\ (Last(Nodes) = "feedback" => Nodes[Len(Nodes) - 1] = "agent")
      /\ (pc # "route" => route = "feedback")
      /\ (pc \in {"suspended", "end"} =>
            /\ payload.type = "feedback_request"
            /\ payload.response.text = Last(messages).content.text
            /\ payload.response.len <= PreviewLen
            /\ Contains(payload.response,
                        "An error occurred while processing your request:"))

C8_Witness ==
    /\ lastExc.name = "TimeoutError"
    /\ "invoke" \in faults
    /\ pc = "end"
    /\ payload.type = "feedback_request"
    /\ Len(Nodes) = 4

C10_IdentifierNeverNull ==
    /\ Len(lastOut) = Len(lastRaw)
    /\ \A k \in 1..Len(lastOut) :
         /\ lastOut[k].id # None
         /\ (lastRaw[k].id # None => lastOut[k].id = lastRaw[k].id)
         /\ (lastRaw[k].id = None =>
               \A m \in 1..Len(messages) :
                 messages[m].id = lastOut[k].id =>
                   m = Len(messages) - Len(lastOut) + k)
    /\ \A m \in 1..Len(messages) : messages[m].id # None

C10_Witness ==
    /\ pc = "route"
    /\ Len(messages) = 5
    /\ lastRaw[1].id = None
    /\ lastOut[1].id # None
    /\ messages[3].type = "tool"
    /\ messages[4].type = "tool"
    /\ messages[3].id # messages[4].id

-----------------------------------------------------------------------------
(* Trimming, parent references and the sequence sent to the oracle *)

\* the ceiling of a message: that of its type, 0 for a type that is not trimmed
CeilingOf(msg) ==
    IF msg.type = "tool" THEN CeilingTool
    ELSE IF msg.type = "ai" THEN CeilingAgent
    ELSE 0

Oversized(msg) == CeilingOf(msg) > 0 /\ msg.content.len > CeilingOf(msg)

\* the content of the message was trimmed by an earlier Decision Step
IsTrimmed(msg) == "parts" \in DOMAIN msg.content

\* a Decision Step runs and the oracle answers
DecisionStep == pc = "agent" /\ pc' = "route"

\* C11: a ToolResult content longer than 10,000 units, or an AgentResponse
\* content longer than 50,000 units, is trimmed by the Decision Step to exactly
\* ceiling + length of the marker units: the first 70% of the ceiling of the
\* original, the marker stating original length minus ceiling, and the last 30%
\* of the ceiling of the original.
C11_TrimLaw ==
    [][DecisionStep =>
        \A k \in 1..Len(messages) :
          Oversized(messages[k]) =>
            LET ceiling == CeilingOf(messages[k])
                before == messages[k].content
                after == messages'[k].content
                omitted == before.len - ceiling
                head == (7 * ceiling) \div 10
                tail == (3 * ceiling) \div 10
            IN /\ after.len = ceiling + NoticeLen(omitted)
               /\ PartsLen(Parts(after)) = after.len
               /\ Take(Parts(after), head) = Take(Parts(before), head)
               /\ Drop(Parts(after), after.len - tail)
                    = Drop(Parts(before), before.len - tail)
               /\ Drop(Take(Parts(after), after.len - tail), head)
                    = <<Piece(omitted, 1, NoticeLen(omitted))>>
    ]_vars

C11_Witness ==
    /\ Len(messages) >= 4
    /\ messages[2].type = "ai"
    /\ messages[2].content.len = 50069
    /\ Parts(messages[2].content)
         = <<Piece(0, 1, 35000), Piece(10000, 1, 69), Piece(0, 45001, 60000)>>
    /\ messages[3].type = "tool"
    /\ messages[3].content.len = 10068
    /\ Parts(messages[3].content)
         = <<Piece(0, 1, 7000), Piece(5000, 1, 68), Piece(0, 12001, 15000)>>

\* C12: trimming is idempotent: a Decision Step changes neither the content nor
\* the id of a message that was already trimmed or that is within its ceiling.
C12_TrimIdempotent ==
    [][DecisionStep =>
        \A k \in 1..Len(messages) :
          IsTrimmed(messages[k]) \/ ~Oversized(messages[k]) =>
            /\ messages'[k].content = messages[k].content
            /\ messages'[k].id = messages[k].id
    ]_vars

\* C13: every message a node returns is size-bounded: the content of a
\* ToolResult returned by the Tool Invoker is no longer than 10,000 units plus
\* the marker, that of an AgentResponse returned by the Decision Step no longer
\* than 50,000 units plus the marker.
C13_OutputsBounded ==
    \A k \in 1..Len(lastOut) :
      CeilingOf(lastOut[k]) > 0 =>
        lastOut[k].content.len
          <= CeilingOf(lastOut[k]) + NoticeLen(lastOut[k].content.len)

\* C14: no message a node returns carries a parent reference (parentMessageId
\* or parent_id, as an attribute or in additional_kwargs) that is present and
\* null: a null one is removed, a non-null one kept, an absent one stays absent.
C14_NoNullParent ==
    /\ Len(lastOut) = Len(lastRaw)
    /\ \A k \in 1..Len(lastOut) :
         \A a \in ParentAttributes :
           /\ Parents(lastOut[k])[a] # Null
           /\ (Parents(lastRaw[k])[a] = Null => Parents(lastOut[k])[a] = Absent)
           /\ (Parents(lastRaw[k])[a] # Null =>
                 Parents(lastOut[k])[a] = Parents(lastRaw[k])[a])

\* the transcript the last Decision Step ran on, as that step left it
Before == SubSeq(messages, 1, Len(messages) - 1)

\* the last step was a Decision Step that invoked the oracle
OracleInvoked == steps # <<>> /\ Last(steps) = "agent" /\ sent # <<>>

\* C15: the sequence sent to the oracle starts with a System message: exactly
\* one System directive is prepended when the Transcript is empty or does not
\* start with one, nothing is prepended when it does, and the synthesized
\* directive is not stored in the Transcript.
C15_SystemFirst ==
    /\ (steps # <<>> /\ Last(steps) = "agent" /\ "prepare" \notin faults
          => sent # <<>>)
    /\ (OracleInvoked =>
          /\ sent[1].type = "system"
          /\ (Before = <<>> \/ Before[1].type # "system" =>
                /\ sent[1].content = SYSTEM_PROMPT
                /\ Tail(sent) = Before)
          /\ (Before # <<>> /\ Before[1].type = "system" => sent = Before)
          /\ \A k \in 2..Len(sent) : sent[k].type # "system")
    /\ \A k \in 1..Len(messages) :
         messages[k].type = "system" => k = 1 /\ messages[k].id # None

C15_Witness ==
    /\ OracleInvoked
    /\ Len(messages) = 4
    /\ messages[1].type = "human"
    /\ Len(sent) = 4
    /\ sent[1].type = "system"
    /\ sent[1].id = None
    /\ sent[2] = messages[1]

-----------------------------------------------------------------------------
(* The Feedback Step *)

\* an AgentResponse without ToolCalls
IsAnswer(msg) == msg.type = "ai" /\ msg.tool_calls = <<>>

NoAnswer(msgs) == \A i \in 1..Len(msgs) : ~IsAnswer(msgs[i])

\* C16: a Feedback Step entered with a Transcript that has no AgentResponse
\* without ToolCalls ends in skipped, with no suspend payload, no FeedbackRecord
\* and TurnState unchanged; otherwise it suspends and the answer it rates is the
\* most recent AgentResponse without ToolCalls.
C16_SkipOrRateLast ==
    [][pc = "feedback" =>
        /\ (NoAnswer(messages) =>
              /\ pc' = "end"
              /\ payload' = payload
              /\ records' = records
              /\ faults' = faults
              /\ messages' = messages
              /\ error' = error
              /\ frontend' = frontend)
        /\ (~NoAnswer(messages) =>
              /\ pc' = "suspended"
              /\ messages' = messages
              /\ \E i \in 1..Len(messages) :
                   /\ IsAnswer(messages[i])
                   /\ \A j \in (i + 1)..Len(messages) : ~IsAnswer(messages[j])
                   /\ payload'.response.text = messages[i].content.text)
    ]_vars

C16_Witness ==
    /\ steps = <<"feedback">>
    /\ pc = "end"
    /\ Len(messages) = 3
    /\ NoAnswer(messages)
    /\ messages[3].type = "tool"
    /\ payload = NoPayload
    /\ records = <<>>

\* C17: the payload of a suspended Feedback Step has type feedback_request, a
\* question and a preview that is the first min(500, length) units of the final
\* AgentResponse; its correlation id is the id of the active trace, and null
\* when tracing is disabled or no trace could be had.
C17_InterruptPayload ==
    pc = "suspended" =>
      /\ payload.type = "feedback_request"
      /\ payload.question = "Was this response helpful?"
      /\ IsAnswer(Last(messages))
      /\ payload.response.text = Last(messages).content.text
      /\ payload.response.len = Min(500, Last(messages).content.len)
      /\ payload.response.len <= 500
      /\ payload.traceId \in {TraceId, NoTrace}
      /\ (~mlflow_enabled => payload.traceId = NoTrace)
      /\ ("trace_lookup" \in faults => payload.traceId = NoTrace)

C17_Witness ==
    /\ pc = "suspended"
    /\ mlflow_enabled
    /\ Last(messages).content.len = 800
    /\ payload.response.len = 500
    /\ payload.traceId = TraceId

\* C18: while the Feedback Step is suspended no Decision Step, Tool Invoker
\* pass or score write happens and the Transcript and last-error stay as they
\* are; the resume is followed by the parse, at most one score write and the end
\* of the turn, after which nothing runs.
C18_SuspensionPoint ==
    [][/\ (pc = "suspended" =>
             /\ records = <<>>
             /\ resumed = NotResumed
             /\ resumed' # NotResumed
             /\ pc' = "end"
             /\ steps' = steps
             /\ decisions' = decisions
             /\ messages' = messages
             /\ error' = error
             /\ Len(records') <= 1)
       /\ (pc = "end" => UNCHANGED vars)
    ]_vars

C18_Witness ==
    /\ pc = "end"
    /\ Nodes = <<"agent", "tools", "agent", "feedback">>
    /\ resumed = DictPayload(TRUE, "yes")
    /\ Len(records) = 1

\* C19: a resume payload that is a bare text with no affirmative or negative
\* signal, the text 'not sure', gives no boolean signal: no FeedbackRecord is
\* written and the Feedback Step ends in skipped without an error.
C19_NotSureSkipped ==
    resumed = NotSure =>
      /\ pc = "end"
      /\ records = <<>>

\* the payload is an object or a JSON text of shape {"feedback": "yes"|"no"}
Structured(data) ==
    /\ data.kind = "dict" \/ (data.kind = "str" /\ data.json = "dict")
    /\ ~data.empty
    /\ data.has_key
    /\ data.value \in {"yes", "no"}

\* the resume fell back to substring matching
FellBack == "parse" \in faults

\* C20: a structured object or a JSON text of shape {"feedback": "yes"|"no"}
\* yields its feedback field; only a string that does not parse as such a
\* structure falls back to substring matching, where a string containing "yes"
\* yields yes; a record written for yes has satisfaction true, for no false.
C20_TwoStageParse ==
    resumed # NotResumed =>
      /\ pc = "end"
      /\ (FellBack => resumed.kind = "str" /\ ~Structured(resumed))
      /\ (records # <<>> =>
            /\ mlflow_enabled
            /\ Len(records) = 1
            /\ records[1].name = "user_satisfaction"
            /\ (Structured(resumed) =>
                  records[1].value = (resumed.value = "yes"))
            /\ (FellBack /\ resumed.has_yes => records[1].value = TRUE))

C20_Witness ==
    /\ resumed = StrPayload(FALSE, "dict", TRUE, "no", FALSE)
    /\ pc = "end"
    /\ ~FellBack
    /\ Len(records) = 1
    /\ records[1].value = FALSE

\* the Feedback Step came to its scoring lines without a trace to score
NoTraceToScore == scoring \in {"skipped", "none"}

\* C21: when the score is to be logged and tracing is disabled or there is no
\* active trace id, no FeedbackRecord is written, nothing is raised and the
\* turn ends
C21_NoTraceNoRecord ==
    NoTraceToScore =>
      /\ records = <<>>
      /\ pc = EdgeAfterFeedback
      /\ "sink" \notin faults
      /\ (scoring = "skipped") = ~mlflow_enabled
C21_Witness ==
    /\ scoring = "none"
    /\ resumed = DictPayload(TRUE, "yes")
    /\ pc = EdgeAfterFeedback

\* the resume value is the object the caller is to send, with a yes or a no
AnsweredYesNo == Structured(resumed) /\ resumed.value \in {"yes", "no"}

\* a step that writes to the sink is the resumed Feedback Step
WrittenOnResume ==
    records' # records =>
      /\ pc = "suspended"
      /\ resumed = NotResumed
      /\ resumed' # NotResumed
      /\ Len(records') = Len(records) + 1

\* at most one record, written after the resume value arrived, by a human
AtMostOneHumanRecord ==
    /\ Len(records) <= 1
    /\ records # <<>> =>
         /\ resumed # NotResumed
         /\ Last(steps) = "feedback"
         /\ records[1].source = "HUMAN"
         /\ records[1].name = "user_satisfaction"

\* C22 as stated: at most one FeedbackRecord per turn, written only by the
\* resumed Feedback Step with source human, and exactly one in every turn
\* resumed with yes or no while tracing is enabled and a trace id exists
C22_ExactlyOneRecord ==
    /\ [](AtMostOneHumanRecord)
    /\ [](AnsweredYesNo /\ scoring = "trace" => Len(records) = 1)
    /\ [][WrittenOnResume]_vars

\* C22 amended: exactly one record in every such turn in which the sink
\* accepts the write; none when log_feedback fails
C22_OneRecordIfSinkAccepts ==
    /\ [](AtMostOneHumanRecord)
    /\ [](AnsweredYesNo /\ scoring = "trace" =>
            Len(records) = (IF "sink" \in faults THEN 0 ELSE 1))
    /\ [][WrittenOnResume]_vars
C22_Witness ==
    /\ AnsweredYesNo
    /\ scoring = "trace"
    /\ "sink" \notin faults
    /\ Len(records) = 1
    /\ pc = EdgeAfterFeedback

\* a step in which attaching the score failed: log_feedback raised, or
\* get_last_active_trace_id did
ScoreFailed ==
    \/ "sink" \in faults' \ faults
    \/ scoring = NotScored /\ scoring' = "raise"

\* a step in which the score or the read of the trace id shown to the caller
\* (last_active_trace) failed
SinkFailed == ScoreFailed \/ "trace_lookup" \in faults' \ faults

\* C23: a failure of the sink while the trace id is read or the score is
\* attached stays inside the Feedback Step: the step adds no message, leaves
\* last-error as it was and goes on to where it goes without the failure
\* (suspension before the answer, the end of the turn after it); a failed
\* attachment writes no record
C23_SinkFailureCaught ==
    [][/\ SinkFailed =>
            /\ messages' = messages
            /\ error' = error
            /\ pc' = (IF pc = "suspended" THEN EdgeAfterFeedback
                      ELSE "suspended")
       /\ ScoreFailed => records' = records]_vars
C23_Witness ==
    /\ "sink" \in faults
    /\ "trace_lookup" \in faults
    /\ pc = EdgeAfterFeedback
    /\ error = NoError

-----------------------------------------------------------------------------
(* The error classification *)

\* the returned texts that match a signature: they contain "Error:",
\* "HTTPError:", "HTTP error", "Traceback" or "does not exist for the field",
\* or start with "error" in any case
SignedTexts ==
    {<<"Error:", "Unable to connect to Neo4j database">>,
     <<"Error finding experts:", "ServiceUnavailable">>,
     <<"requests", "HTTPError:", "404">>,
     <<"ValueError:", "bad label">>,
     <<"HTTP error", "500">>,
     <<"Traceback", "(most recent call last)">>,
     <<"Property", "does not exist for the field">>,
     <<"error", "connecting">>,
     <<"ERROR">>,
     <<"Errors", "0">>,
     <<"Error:", "ToolException", "Please fix your mistakes.">>,
     <<"Error:", "find_experts_by_topic", "is not a valid tool, try one of">>}

\* the error classification of the tool results is what it was
ClassificationKept ==
    \A i \in 1..Len(messages) :
      messages[i].type = "tool" =>
        /\ Len(messages') >= i
        /\ messages'[i].type = "tool"
        /\ messages'[i].tool_call_id = messages[i].tool_call_id
        /\ messages'[i].error = messages[i].error

\* C24: the Tool Invoker classifies a ToolResult as error exactly when its
\* text matches an error signature; the results ToolNode makes of a raised
\* exception and of an unknown tool are so classified; and no later step
\* changes the classification of a ToolResult in the Transcript
C24_ErrorMarking ==
    /\ [](JustReturned =>
            \A k \in 1..Len(lastOut) :
              /\ lastOut[k].error = (lastRaw[k].content.text \in SignedTexts)
              /\ lastRaw[k].status = "error" => lastOut[k].error)
    /\ [][ClassificationKept]_vars
C24_Witness ==
    /\ Len(messages) = 4
    /\ messages[3].type = "tool"
    /\ messages[3].error
    /\ messages[3].status = "success"
    /\ messages[3].content.text = <<"ValueError:", "bad label">>
    /\ IsTrimmed(messages[3])
    /\ pc = EdgeAfterFeedback

-----------------------------------------------------------------------------
(* Timeouts *)

\* the last message is the synthetic error AgentResponse
EndsWithErrorResponse ==
    /\ messages # <<>>
    /\ Last(messages).type = "ai"
    /\ Last(messages).tool_calls = <<>>
    /\ Contains(Last(messages).content,
                "An error occurred while processing your request:")

\* C25: a timeout of the caller at the oracle invocation or at the suspension
\* of the Feedback Step aborts the pending call, and the turn goes on with a
\* synthetic error AgentResponse: it neither raises nor stays suspended
C25_TimeoutAborts ==
    /\ lastExc = CancelledError => pc # "crashed" /\ EndsWithErrorResponse
    /\ "timeout" \in faults => pc # "suspended" /\ EndsWithErrorResponse

-----------------------------------------------------------------------------
(* The module load *)

\* a credential has a character that is not a blank
Set(credential) == \E i \in 1..Len(credential) : credential[i] # Blank

\* the credential without the blanks around it: from its first character that
\* is not a blank to its last
Core(credential) ==
    LET at == {i \in 1..Len(credential) : credential[i] # Blank}
        first == CHOOSE i \in at : \A j \in at : i <= j
        last == CHOOSE i \in at : \A j \in at : j <= i IN
    SubSeq(credential, first, last)

\* Settings() has run
SettingsResolved == pc # "settings"

\* C26: the configuration is resolved exactly when one of the two credentials,
\* and not the other, is more than blanks, and api_key is then that credential
\* without the blanks around it; with none or both the load fails with an
\* error and the process never serves a turn
C26_ExactlyOneCredential ==
    SettingsResolved =>
      LET openai == Set(settings.openai_api_key)
          anthropic == Set(settings.anthropic_api_key) IN
      /\ (pc # "failed") = (openai # anthropic)
      /\ openai /\ ~anthropic => settings.api_key = Core(settings.openai_api_key)
      /\ anthropic /\ ~openai => settings.api_key = Core(settings.anthropic_api_key)
      /\ ~openai /\ ~anthropic => boot.error = "Missing API key"
      /\ openai /\ anthropic => boot.error = "Ambiguous API key"
      /\ pc = "failed" => steps = <<>> /\ boot.all_tools = <<>>
C26_Witness ==
    /\ pc = "prompt"
    /\ settings.openai_api_key = <<Blank>>
    /\ settings.anthropic_api_key = <<Blank, "a">>
    /\ settings.api_key = <<"a">>

\* load_tools has returned
ToolsLoaded == pc \notin {"settings", "prompt", "load_tools", "failed"}

\* the names in a list of tools
Names(tools) == {tools[i] : i \in 1..Len(tools)}

\* the tracker URL and a personal token, or the URL, a username and an API
\* token, are configured
TrackerConfigured ==
    /\ settings.jira_url # ""
    /\ \/ settings.jira_personal_token # ""
       \/ settings.jira_username # "" /\ settings.jira_api_token # ""

\* C27: load_tools never raises; the registry holds the MCP tools only if the
\* tracker is configured, and then exactly when the fetch did not fail; it
\* holds the backend tools exactly when the database driver is available, and
\* nothing else
C27_ToolRegistry ==
    /\ pc = "failed" => boot.error # "none"
    /\ ToolsLoaded =>
         LET mcp == Names(McpTools) \subseteq Names(boot.all_tools)
             backend == Names(Neo4jTools) \subseteq Names(boot.all_tools) IN
         /\ mcp => TrackerConfigured
         /\ mcp = (TrackerConfigured /\ "mcp" \notin faults)
         /\ ~mcp => Names(boot.all_tools) \cap Names(McpTools) = {}
         /\ backend = ("neo4j" \notin faults)
         /\ ~backend => Names(boot.all_tools) \cap Names(Neo4jTools) = {}
         /\ Names(boot.all_tools) \subseteq Names(Neo4jTools) \cup Names(McpTools)
         /\ ~mcp /\ backend => boot.all_tools = Neo4jTools
C27_Witness ==
    /\ pc = "bind"
    /\ TrackerConfigured
    /\ settings.jira_personal_token = ""
    /\ "mcp" \in faults
    /\ boot.all_tools = Neo4jTools

\* SYSTEM_PROMPT has been assigned
PromptLoaded == pc \notin {"settings", "prompt", "failed"}

\* C28: loading the system prompt never raises; the text kept is the template
\* of the registry when tracing is enabled and the lookup succeeds, and the
\* built-in text otherwise; once loaded it never changes, and it is the text
\* of the system message every Decision Step puts first
C28_PromptCached ==
    /\ [](pc = "failed" => boot.error # "none")
    /\ [](PromptLoaded =>
            /\ SYSTEM_PROMPT =
                 (IF mlflow_enabled /\ "prompt_lookup" \notin faults
                  THEN RegistryPrompt ELSE DEFAULT_SYSTEM_PROMPT)
            /\ OracleInvoked =>
                 sent[1].type = "system" /\ sent[1].content = SYSTEM_PROMPT)
    /\ [][PromptLoaded => SYSTEM_PROMPT' = SYSTEM_PROMPT]_vars
C28_Witness ==
    /\ decisions = 2
    /\ mlflow_enabled
    /\ "prompt_lookup" \notin faults
    /\ sent[1].content = RegistryPrompt
    /\ messages[1].type = "human"

-----------------------------------------------------------------------------
(* Two turns *)

\* what a turn owns: its Transcript, its last-error and its frontend tools
Owned(turn) ==
    [messages |-> turn.messages, error |-> turn.error,
     frontend |-> turn.frontend]

\* a step of the running turn leaves the other turn as it is, and a change of
\* the running turn leaves both as they are
OtherTurnKept ==
    /\ running' = running => other' = other
    /\ running' # running =>
         /\ Owned(other') = Owned(TurnState)
         /\ Owned(TurnState') = Owned(other)

\* C29: with two turns interleaved, a step of one turn changes nothing of the
\* other turn (a turn left suspended included); the tools bound for an oracle
\* invocation are those of the registry and the frontend tools of the turn that
\* invokes; and the registry of the process never takes a frontend tool
C29_TurnsIsolated ==
    /\ [](/\ boot.all_tools = Ready.all_tools
          /\ boot.model_with_tools = Ready.model_with_tools
          /\ FrontendTool \notin Names(boot.all_tools))
    /\ [](OracleInvoked =>
            Names(bound) = Names(Ready.all_tools) \cup frontend)
    /\ [][OtherTurnKept]_vars
C29_Witness ==
    /\ other # NoTurn
    /\ other.pc = "suspended"
    /\ other.frontend = {FrontendTool}
    /\ FrontendTool \in Names(other.bound)
    /\ frontend = {}
    /\ bound = Ready.all_tools
    /\ decisions = 2
    /\ pc = EdgeAfterFeedback

-----------------------------------------------------------------------------
(* The Transcript *)

\* the messages the step appends
Appended == SubSeq(messages', Len(messages) + 1, Len(messages'))

\* every message of the Transcript is where it was and what it was, but for the
\* content of an oversized one, which a Decision Step may have trimmed
PrefixKept ==
    /\ Len(messages') >= Len(messages)
    /\ \A i \in 1..Len(messages) :
         /\ messages'[i].id = messages[i].id
         /\ [messages'[i] EXCEPT !.content = messages[i].content] = messages[i]
         /\ \/ messages'[i].content = messages[i].content
            \/ /\ pc = "agent"
               /\ Oversized(messages[i])
               /\ IsTrimmed(messages'[i])
               /\ messages'[i].content.text = messages[i].content.text

\* C30: no step removes, reorders or re-identifies a message of the
\* Transcript; a Decision Step appends one AgentResponse whether the oracle
\* answers or fails, a Tool Invoker pass appends ToolResults only, one per
\* ToolCall, and the Router and the Feedback Step append nothing
C30_AppendOnly ==
    [][/\ PrefixKept
       /\ pc = "agent" =>
            /\ Len(Appended) = 1
            /\ Appended[1].type = "ai"
            /\ Appended[1].id # None
       /\ pc \in {"tools", "tools_wait"} =>
            IF pc' = EdgeAfterTools
            THEN /\ Len(Appended) = Len(Last(messages).tool_calls)
                 /\ \A k \in 1..Len(Appended) :
                      /\ Appended[k].type = "tool"
                      /\ Appended[k].tool_call_id =
                           Last(messages).tool_calls[k].id
            ELSE Appended = <<>>
       /\ pc \in {"route", "feedback", "suspended"} => Appended = <<>>]_vars
C30_Witness ==
    /\ pc = EdgeAfterFeedback
    /\ Len(messages) = 4
    /\ messages[3].type = "tool"
    /\ IsTrimmed(messages[3])
    /\ lastExc # NoException
    /\ messages[4].type = "ai"
    /\ resumed # NotResumed

-----------------------------------------------------------------------------
(* The ToolCalls of a turn *)

IsToolPass(s) == s = "tools"

\* the ToolResults of msgs that answer the call id
ResultsOf(msgs, id) ==
    {j \in 1..Len(msgs) : msgs[j].type = "tool" /\ msgs[j].tool_call_id = id}

\* C31: over a whole turn ToolNode runs every ToolCall at most once, and only
\* ToolCalls of the transcript; and in the sequence a Decision Step hands to
\* the oracle every ToolCall has exactly one ToolResult with its call id, after
\* the AgentResponse that requested it.
C31_CallsExecutedOnce ==
    /\ \A id \in BagToSet(executed) :
         /\ CopiesIn(id, executed) = 1
         /\ \E i \in 1..Len(messages) :
              \E k \in 1..Len(messages[i].tool_calls) :
                messages[i].tool_calls[k].id = id
    /\ OracleInvoked =>
         \A i \in 1..Len(sent) : \A k \in 1..Len(sent[i].tool_calls) :
           /\ Cardinality(ResultsOf(sent, sent[i].tool_calls[k].id)) = 1
           /\ \A j \in ResultsOf(sent, sent[i].tool_calls[k].id) : j > i

\* the oracle is invoked after two passes, the first of them of two calls
C31_Witness ==
    /\ OracleInvoked
    /\ Len(SelectSeq(steps, IsToolPass)) = 2
    /\ \E i \in 1..Len(sent) :
         /\ Len(sent[i].tool_calls) = 2
         /\ \E j \in i + 3..Len(sent) : Len(sent[j].tool_calls) > 0
    /\ BagCardinality(executed) >= 3
-----------------------------------------------------------------------------
(* The satisfaction value *)

\* the answer feedback_node extracted from the resume value
ExtractedAnswer == extract_feedback(resumed).feedback

\* C32: a FeedbackRecord with satisfaction true is written only if the
\* extracted answer is exactly "yes", one with satisfaction false only if it is
\* "no"; a structured payload whose feedback field is any other non-empty value
\* produces no record.
C32_SatisfactionSound ==
    resumed # NotResumed =>
      /\ \A i \in 1..Len(records) :
           /\ records[i].value => ExtractedAnswer = "yes"
           /\ ~records[i].value => ExtractedAnswer = "no"
      /\ (/\ resumed.kind = "dict"
          /\ resumed.has_key
          /\ resumed.value \notin {"yes", "no", ""}) => records = <<>>
-----------------------------------------------------------------------------
(* The trace a FeedbackRecord is attached to *)

\* the running turn resumes and a record is written
RecordWritten == pc = "suspended" /\ records' # records

\* C33: with several turns running or suspended in the process, the record
\* written when a turn resumes is attached to that turn's own trace, which is
\* the trace id its suspend payload exposed, and never to the trace of another
\* turn that became the last active trace of the process in the meantime.
C33_RecordOnOwnTrace ==
    [][RecordWritten =>
         /\ records'[Len(records')].trace_id = Trace(running)
         /\ payload.traceId # NoTrace =>
              records'[Len(records')].trace_id = payload.traceId]_vars
-----------------------------------------------------------------------------
(* The Feedback Step after the Router, and last-error *)

\* C34: whenever the Feedback Step is reached through the Router, the last
\* message of the Transcript is an AgentResponse without ToolCalls: the step
\* does not skip, it suspends with the payload, and the answer it previews is
\* the last message of the Transcript.
C34_NeverSkipsAfterRouter ==
    /\ [](pc = "feedback" /\ route = "feedback" => IsAnswer(Last(messages)))
    /\ [][pc = "feedback" /\ route = "feedback" =>
            /\ pc' = "suspended"
            /\ payload' # NoPayload
            /\ payload'.response = Prefix(Last(messages).content, PreviewLen)
         ]_vars

\* the second turn of a thread suspends on its answer, the first turn having
\* ended with another one
C34_Witness ==
    /\ running = 2
    /\ pc = "suspended"
    /\ route = "feedback"
    /\ \E i \in 1..Len(messages) - 1 :
         /\ IsAnswer(messages[i])
         /\ messages[i].content # Last(messages).content
    /\ payload.response = Prefix(Last(messages).content, PreviewLen)

\* the content of the error banner agent_node makes for the error text
BannerOf(error_msg) ==
    <<"An error occurred while processing your request:">> \o error_msg.text

\* C35: at every point of a turn last-error is non-null only if the most
\* recent AgentResponse of the Transcript is the error banner of a failed
\* Decision Step; a Decision Step that succeeds leaves no last-error of an
\* earlier failure, and the Tool Invoker and the Feedback Step never set or
\* change last-error.
C35_LastErrorIsCurrent ==
    /\ [](error # NoError =>
            /\ LastAIIndex # 0
            /\ messages[LastAIIndex].content.text = BannerOf(error))
    /\ [][(pc \in {"tools", "tools_wait", "feedback", "suspended"}) =>
            error' = error]_vars
-----------------------------------------------------------------------------
(* Termination *)

\* the last AgentResponse asks for tools
ToolsRequested == LastAIIndex # 0 /\ messages[LastAIIndex].tool_calls # <<>>

\* C36: under fair scheduling, if the oracle comes to return an AgentResponse
\* without ToolCalls (or fails) and the caller delivers the resume signal, the
\* turn terminates; the orchestration counts no passes: a request for tools is
\* routed to the Tool Invoker and from there to the next Decision Step
\* whatever the number of passes so far, and the Feedback Step is reached only
\* after an AgentResponse without ToolCalls.
C36_Terminates ==
    /\ <>(pc = "end")
    /\ [](pc \in {"feedback", "suspended", "end"} => ~ToolsRequested)
    /\ [][/\ pc = "route" /\ ToolsRequested => pc' = "tools"
          /\ pc = "tools" => pc' = "agent"]_vars

\* a turn of MaxPasses Decision Steps has ended after the resume signal
C36_Witness ==
    /\ pc = "end"
    /\ decisions = MaxPasses
    /\ Len(SelectSeq(steps, IsToolPass)) = MaxPasses - 1
    /\ resumed # NotResumed
-----------------------------------------------------------------------------
(* The Neo4j driver *)

\* the call failed to create a driver or to verify its connectivity
DriverFailed(call) == "raise" \in {call.create, call.verify}

\* C37: get_neo4j_driver returns a driver only if that driver's connectivity
\* check succeeded: a call in which the creation or the check fails returns
\* None, no unverified driver is kept as the handle of the process, no later
\* call returns a driver whose check failed, and once a verified driver exists
\* every later call returns that same driver.
C37_OnlyVerifiedDrivers ==
    /\ boot.neo4j_driver # NoDriver => boot.neo4j_driver.verified
    /\ \A i \in 1..Len(applied) :
         /\ DriverFailed(applied[i]) => applied[i].result = NoDriver
         /\ applied[i].result # NoDriver =>
              /\ applied[i].result.verified
              /\ \A j \in i..Len(applied) :
                   applied[j].result = applied[i].result
-----------------------------------------------------------------------------
(* The model *)

\* the module is loaded: the model is made and the tools are bound to it
ModelMade == pc \notin {"settings", "prompt", "load_tools", "bind", "failed"}

\* C38: for every combination of the two credentials that the resolution of
\* the settings accepts, the client get_model makes is that of the provider
\* whose credential was resolved into api_key, and the key it passes is
\* api_key; get_model never selects a provider whose credential was treated as
\* unset.
C38_ModelOfResolvedKey ==
    ModelMade =>
      /\ boot.model.api_key = settings.api_key
      /\ boot.model.provider = "openai" => Set(settings.openai_api_key)
      /\ boot.model.provider = "anthropic" => Set(settings.anthropic_api_key)

-----------------------------------------------------------------------------
(* trim_tool_response with any max_chars *)

\* the calls of trim_tool_response that have returned
TrimReturned ==
    {i \in 1..Len(applied) :
        /\ applied[i].fn = "trim_tool_response"
        /\ applied[i].result # NotApplied}

\* result is the first a characters of content, a truncation notice and the
\* last b characters of content, and the notice states the characters of
\* content that are in neither
PrefixMarkerSuffix(content, result, a, b) ==
    LET omitted == content.len - (a + b) IN
    /\ Parts(result) = Take(Parts(content), a) \o <<Notice(omitted)>>
                         \o Drop(Parts(content), content.len - b)
    /\ result.len = a + b + NoticeLen(omitted)

\* C39: for every max_chars >= 1 and every content longer than max_chars,
\* trim_tool_response returns prefix + marker + suffix, where prefix and
\* suffix are a leading and a trailing part of the content whose lengths sum
\* to at most max_chars, so that the result is never longer than max_chars
\* plus the marker, and the number in the marker is the number of characters
\* actually omitted; a content of at most max_chars characters is returned
\* unchanged.
C39_TrimShape ==
    \A i \in TrimReturned :
      LET content == applied[i].content
          max_chars == applied[i].max_chars
          result == applied[i].result
      IN IF content.len <= max_chars
         THEN result = content
         ELSE \E a \in 0..max_chars : \E b \in 0..(max_chars - a) :
                PrefixMarkerSuffix(content, result, a, b)
====
